---------------------------- MODULE Spec2Model ----------------------------
(***************************************************************************)
(* A model of the replicated blockchain engine of                          *)
(* src/blockchain/blockchain.py (class BlockChain) and of the way          *)
(* src/blockchain/bc_agent.py drives it.                                   *)
(*                                                                         *)
(* A BlockChain object is a record with the fields of the Python object.   *)
(* Every method is an operator that takes the object and returns the       *)
(* object after the call together with the method's return value, so that  *)
(* the mutations a method makes (also to the memoization caches) are part  *)
(* of its result.                                                          *)
(*                                                                         *)
(* Spec is the engine run: one agent is handed every block of the input    *)
(* alphabet on ROOT or on a stored block, a few blocks before their        *)
(* parent, and the submissions of local users.  SpecDelivery is the        *)
(* delivery run: a set of blocks is handed to two agents in different      *)
(* orders.                                                                 *)
(***************************************************************************)
EXTENDS Integers, Sequences, FiniteSets, TLC

VARIABLES
    bc,       \* agent -> its BlockChain object
    ret,      \* the value the last create_block call returned
    sent,     \* the messages the last add_block call passed to its sender
    todo,     \* the set of blocks that the delivery runs hand to the agents
    offered,  \* agent -> the blocks of todo it has been offered so far
    got,      \* the dict that the caller of a query holds
    net,      \* <<sender, receiver>> -> the messages in flight on their channel
    req,      \* the /transfer request that an agent is handling
    boot,     \* the start of a2's first channel: its joined flag and its pull
    task,     \* peer -> the background task of a2 that contacts the peer
    game      \* the game server of bob_b's booth: its sessions and its calls

vars == <<bc, ret, sent, todo, offered, got, net, req, boot, task, game>>

-----------------------------------------------------------------------------
(* Bounds of the model. *)

\* In the engine runs an add_block step is taken only if the store then
\* holds <= MaxBlocks blocks ...
MaxBlocks == 3
\* ... and the pending buffer <= MaxPending blocks.
MaxPending == 1
\* The delivery runs hand a set of at most MaxSet blocks to both agents.
MaxSet == 3
\* The request and network runs start at most MaxRequests /transfer requests.
MaxRequests == 2
\* The spending runs start at most MaxSpends /transfer requests.
MaxSpends == 6

-----------------------------------------------------------------------------
(* The input alphabet. *)

\* alice is a player, bob_b a booth, alice_b alice's namesake booth; eve is
\* a name that is not registered.
NameSeq == <<"alice", "alice_b", "bob_b", "eve">>
Names == {NameSeq[i] : i \in DOMAIN NameSeq}

\* the amounts around the limits 1..5 (player->booth) and 0..10 (booth->player)
AmountSeq == <<-1, 0, 2, 4, 6, 11>>
Amounts == {AmountSeq[i] : i \in DOMAIN AmountSeq}

MemoSeq == <<"m">>
Memos == {MemoSeq[i] : i \in DOMAIN MemoSeq}

Agents == {"a1", "a2"}

\* The agents of the network runs
Peers == Agents \cup {"a3"}

-----------------------------------------------------------------------------
(* Constants of the program and of its configuration. *)

\* blockchain.py:6.  The model's change hashes are positive, so 0 is a value
\* that no change hashes to, as the program assumes of its ROOT_HASH.
ROOT_HASH == 0

\* 0x10001, the public exponent of blockchain.py:69 and :203
PublicExponent == 65537

\* The starting ticket count of every user, blockchain.py:86
StartBalance == 20

\* The public configuration handed to add_users (bc_agent.py:266-269).  The
\* keys are the RSA moduli 139*7103 and 179*5807; alice_b's record has no key
\* (UserData is total=False).
PubConfig ==
    [u \in {"alice", "alice_b", "bob_b"} |->
        CASE u = "alice"   -> [key |-> 987317, host |-> "h1"]
          [] u = "alice_b" -> [host |-> "h2"]
          [] u = "bob_b"   -> [key |-> 1039453]]

\* The private exponents of the private configuration (bc_agent.py:134):
\* 65537 * d = 1 modulo lcm(p-1, q-1) of the user's modulus.
Secret ==
    [u \in {"alice", "bob_b"} |->
        CASE u = "alice"   -> 329
          [] u = "bob_b"   -> 205]

-----------------------------------------------------------------------------
(* Arithmetic: Python's pow(base, exp, mod) on machine integers. *)

\* a * b % m for 0 <= a, b < m < 2^20, without leaving 32 bits
MulMod(a, b, m) ==
    ((((a * (b \div 1024)) % m) * 1024) + (a * (b % 1024))) % m

\* result * base ** exp % mod, by squaring: one bit of the exponent per round
RECURSIVE PowLoop(_, _, _, _)
PowLoop(result, base, exp, mod) ==
    IF exp = 0 THEN result
    ELSE IF base = 0 \/ result = 0 THEN 0
    ELSE PowLoop(IF exp % 2 = 1 THEN MulMod(result, base, mod) ELSE result,
                 MulMod(base, base, mod), exp \div 2, mod)

\* pow(base, exp, mod) for exp >= 0
pow(base, exp, mod) == PowLoop(1 % mod, base % mod, exp, mod)

-----------------------------------------------------------------------------
(* Hashing. *)

\* The position of each element of a sequence without repetitions, from 0
Positions(seq) ==
    [x \in {seq[i] : i \in DOMAIN seq} |-> (CHOOSE i \in DOMAIN seq : seq[i] = x) - 1]

NameCode == Positions(NameSeq)
AmountCode == Positions(AmountSeq)
MemoCode == Positions(MemoSeq)

\* The number of different (src, dst, n, memo) in the input alphabet, plus one
HashRadix == Len(NameSeq) * Len(NameSeq) * Len(AmountSeq) * Len(MemoSeq) + 1

\* The canonical encoding of the fields other than old, as a number 1..HashRadix-1
FieldCode(change) ==
    1 + (((NameCode[change.src] * Len(NameSeq) + NameCode[change.dst])
            * Len(AmountSeq) + AmountCode[change.n])
            * Len(MemoSeq) + MemoCode[change.memo])

\* The canonical encoding of a change as a number: the fields as the digits
\* of a number in base HashRadix, the parent's hash in front
Encoding(change) == change.old * HashRadix + FieldCode(change)

\* The hashes are the numbers below HashModulus, the smallest modulus of the
\* registry: RSA signs residues, and a SHA-256 value is below the program's
\* moduli
HashModulus == PubConfig["alice"].key

\* SHA-256 of the canonical JSON of the change, read as an integer.  What the
\* program uses of it is that it is a function of the five fields alone and
\* that different changes have different hashes, none of them ROOT_HASH: the
\* model numbers the canonical encodings, one to one as long as the number is
\* below HashModulus, and folds the larger ones into the range as a hash
\* function does.
_hash_change(change) == Encoding(change) % HashModulus

\* The engine, delivery, request and network runs hand the engine only
\* changes that the model's hash numbers one to one.
InRange(change) ==
    /\ Encoding(change) < HashModulus
    /\ \A u \in DOMAIN PubConfig :
           "key" \in DOMAIN PubConfig[u] => HashModulus <= PubConfig[u].key

-----------------------------------------------------------------------------
(* class BlockChain *)

\* Python's None, where a method returns a string or None
None == "<None>"

\* An empty dict
EmptyDict == [k \in {} |-> {}]

\* dict.get(key, default)
Get(dict, key, default) == IF key \in DOMAIN dict THEN dict[key] ELSE default

\* the dict after  dict[key] = value
Put(dict, key, value) ==
    [k \in DOMAIN dict \cup {key} |-> IF k = key THEN value ELSE dict[k]]

\* the dict after  del dict[key]
Del(dict, key) == [k \in DOMAIN dict \ {key} |-> dict[k]]

\* BlockChain.__init__
NewBlockChain ==
    [blocks         |-> EmptyDict,
     users          |-> EmptyDict,
     head           |-> ROOT_HASH,
     chain_lengths  |-> Put(EmptyDict, ROOT_HASH, 0),
     children       |-> EmptyDict,
     pending        |-> EmptyDict,
     balances_cache |-> EmptyDict,
     paid_cache     |-> EmptyDict]

\* BlockChain.add_users: self.users.update(userdata)
add_users(self, userdata) ==
    [self EXCEPT !.users =
        [u \in DOMAIN self.users \cup DOMAIN userdata |->
            IF u \in DOMAIN userdata THEN userdata[u] ELSE self.users[u]]]

\* A faulty variant of _verify_signature: any number passes as the signature
\* of a user that has a key
_verify_signature_keyed(self, block) ==
    LET src == block.change.src
    IN  src \in DOMAIN self.users /\ "key" \in DOMAIN self.users[src]

_verify_signature(self, block) ==
    LET change_hash == _hash_change(block.change)
        src == block.change.src
    IN  IF src \notin DOMAIN self.users \/ "key" \notin DOMAIN self.users[src]
        THEN FALSE
        ELSE LET public_key == self.users[src].key
                 signature == block.signature
             IN  change_hash = pow(signature, PublicExponent, public_key)

\* username.endswith('_b')
_is_booth(username) ==
    /\ Len(username) >= 2
    /\ SubSeq(username, Len(username) - 1, Len(username)) = "_b"

\* The tuple (player, booth); the empty tuple stands for None
NoPair == <<>>

_get_player_booth_pair(user1, user2) ==
    IF _is_booth(user1) /\ ~_is_booth(user2) THEN <<user2, user1>>
    ELSE IF _is_booth(user2) /\ ~_is_booth(user1) THEN <<user1, user2>>
    ELSE NoPair

\* A faulty variant of _apply_change: n goes from dst to src
_apply_change_back(balances, change) ==
    [[balances EXCEPT ![change.dst] = @ - change.n]
        EXCEPT ![change.src] = @ + change.n]

\* A faulty variant of _apply_change: dst is credited and src is not debited
_apply_change_credit(balances, change) ==
    [balances EXCEPT ![change.dst] = @ + change.n]

\* The balances after  balances[src] -= n; balances[dst] += n
_apply_change(balances, change) ==
    [[balances EXCEPT ![change.src] = @ - change.n]
        EXCEPT ![change.dst] = @ + change.n]

\* A dict that a method returns is an object of the heap: value is its
\* content and alias the keys of the cache that hold this very object, so that
\* a change made to it in place is a change of these cache entries.
\* The cache after an object that it holds under the keys of alias has been
\* changed in place to value
ChangedInPlace(cache, alias, value) ==
    [k \in DOMAIN cache |-> IF k \in alias THEN value ELSE cache[k]]

\* A faulty variant of _copy: the object itself is returned
_copy_none(self, value, keys) ==
    [self |-> self, value |-> value, alias |-> keys]

\* return obj.copy(), for balances, and return {k: v.copy() ...}, for the paid
\* status, of the object that the cache holds under keys: a new object
_copy(self, value, keys) ==
    [self |-> self, value |-> value, alias |-> {}]

\* self.balances_cache[block_hash] = balances; return balances.copy()
_cache_balances(self, block_hash, balances) ==
    _copy([self EXCEPT !.balances_cache = Put(@, block_hash, balances)],
          balances, {block_hash})

\* _compute_balances of a stored block, r being the result of the call for its
\* parent: the dict returned is changed in place and entered in the cache
_balances_after(r, block_hash, change) ==
    _cache_balances([r.self EXCEPT !.balances_cache =
                        ChangedInPlace(@, r.alias, _apply_change(r.value, change))],
                    block_hash, _apply_change(r.value, change))

\* [self |-> the object after the call, value |-> the dict returned,
\*  alias |-> the keys of the cache that hold the object returned]
RECURSIVE _compute_balances(_, _)
_compute_balances(self, block_hash) ==
    IF block_hash \in DOMAIN self.balances_cache
    THEN _copy(self, self.balances_cache[block_hash], {block_hash})
    ELSE IF block_hash = ROOT_HASH
    THEN _cache_balances(self, ROOT_HASH, [user \in DOMAIN self.users |-> StartBalance])
    ELSE _balances_after(_compute_balances(self, self.blocks[block_hash].change.old),
                         block_hash, self.blocks[block_hash].change)

\* A faulty variant of _paid_status_set: a payout leaves the booth in the
\* player's set
_paid_status_set_keep(parent_paid, src, player, booth) ==
    IF src = player
    THEN Put(parent_paid, player, Get(parent_paid, player, {}) \cup {booth})
    ELSE Put(parent_paid, player, Get(parent_paid, player, {}))

\* parent_paid after a transfer between player and booth: a payment adds the
\* booth to the player's set, a payout discards it
_paid_status_set(parent_paid, src, player, booth) ==
    IF src = player
    THEN Put(parent_paid, player, Get(parent_paid, player, {}) \cup {booth})
    ELSE Put(parent_paid, player, Get(parent_paid, player, {}) \ {booth})

\* if pair: ...
_paid_status_pair(parent_paid, src, pair) ==
    IF pair = NoPair THEN parent_paid
    ELSE _paid_status_set(parent_paid, src, pair[1], pair[2])

\* parent_paid after the change of a block
_paid_status_step(parent_paid, change) ==
    _paid_status_pair(parent_paid, change.src,
                      _get_player_booth_pair(change.src, change.dst))

\* self.paid_cache[block_hash] = paid; return a copy of paid
_cache_paid(self, block_hash, paid) ==
    _copy([self EXCEPT !.paid_cache = Put(@, block_hash, paid)],
          paid, {block_hash})

\* _compute_paid_status of a stored block, r being the result of the call for
\* its parent: the dict returned is changed in place and entered in the cache
_paid_after(r, block_hash, change) ==
    _cache_paid([r.self EXCEPT !.paid_cache =
                    ChangedInPlace(@, r.alias, _paid_status_step(r.value, change))],
                block_hash, _paid_status_step(r.value, change))

\* [self |-> the object after the call, value |-> the dict player -> set of
\*  booths, alias |-> the keys of the cache that hold the object returned]
RECURSIVE _compute_paid_status(_, _)
_compute_paid_status(self, block_hash) ==
    IF block_hash \in DOMAIN self.paid_cache
    THEN _copy(self, self.paid_cache[block_hash], {block_hash})
    ELSE IF block_hash = ROOT_HASH
    THEN _cache_paid(self, ROOT_HASH, EmptyDict)
    ELSE _paid_after(_compute_paid_status(self, self.blocks[block_hash].change.old),
                     block_hash, self.blocks[block_hash].change)

\* The paid check of _is_valid_change, r being the result of
\* _compute_paid_status(change['old'])
_is_paid(r, player, booth) ==
    IF player \notin DOMAIN r.value \/ booth \notin r.value[player]
    THEN [self |-> r.self, value |-> "Not paid"]
    ELSE [self |-> r.self, value |-> None]

\* A faulty variant of _is_valid_pair: a player may pay its namesake booth
_is_valid_pair_namesake(self, change, check_paid, player, booth) ==
    IF change.src = player /\ (change.n < 1 \/ change.n > 5)
    THEN [self |-> self, value |-> "Invalid amount"]
    ELSE IF change.src # player /\ (change.n < 0 \/ change.n > 10)
    THEN [self |-> self, value |-> "Invalid amount"]
    ELSE IF check_paid /\ change.src = booth
    THEN _is_paid(_compute_paid_status(self, change.old), player, booth)
    ELSE [self |-> self, value |-> None]

\* A faulty variant of _is_valid_pair: a player cannot pay more than its
\* balance at the parent
_is_valid_pair_solvent(self, change, check_paid, player, booth) ==
    IF player \o "_b" = booth
    THEN [self |-> self, value |-> "Not authorized"]
    ELSE IF change.src = player /\ (change.n < 1 \/ change.n > 5)
    THEN [self |-> self, value |-> "Invalid amount"]
    ELSE IF change.src # player /\ (change.n < 0 \/ change.n > 10)
    THEN [self |-> self, value |-> "Invalid amount"]
    ELSE IF change.src = player
            /\ _compute_balances(self, change.old).value[player] < change.n
    THEN [self |-> self, value |-> "Insufficient balance"]
    ELSE IF check_paid /\ change.src = booth
    THEN _is_paid(_compute_paid_status(self, change.old), player, booth)
    ELSE [self |-> self, value |-> None]

\* The checks of _is_valid_change on a (player, booth) pair
_is_valid_pair(self, change, check_paid, player, booth) ==
    IF player \o "_b" = booth
    THEN [self |-> self, value |-> "Not authorized"]
    ELSE IF change.src = player /\ (change.n < 1 \/ change.n > 5)
    THEN [self |-> self, value |-> "Invalid amount"]
    ELSE IF change.src # player /\ (change.n < 0 \/ change.n > 10)
    THEN [self |-> self, value |-> "Invalid amount"]
    ELSE IF check_paid /\ change.src = booth
    THEN _is_paid(_compute_paid_status(self, change.old), player, booth)
    ELSE [self |-> self, value |-> None]

\* The checks of _is_valid_change on registered users
_is_valid_transfer(self, change, check_paid, pair) ==
    IF pair = NoPair
    THEN [self |-> self, value |-> "Not authorized"]
    ELSE _is_valid_pair(self, change, check_paid, pair[1], pair[2])

\* [self |-> the object after the call, value |-> an error string or None]
_is_valid_change(self, change, check_paid) ==
    IF change.src \notin DOMAIN self.users
    THEN [self |-> self, value |-> "Unknown user: " \o change.src]
    ELSE IF change.dst \notin DOMAIN self.users
    THEN [self |-> self, value |-> "Unknown user: " \o change.dst]
    ELSE _is_valid_transfer(self, change, check_paid,
                            _get_player_booth_pair(change.src, change.dst))

\* Faulty variants of _update_head, to see that the properties of the head
\* notice them: among blocks of one length the larger hash wins, ...
_update_head_larger(self, new_block_hash) ==
    IF self.chain_lengths[new_block_hash] > self.chain_lengths[self.head]
       \/ (self.chain_lengths[new_block_hash] = self.chain_lengths[self.head]
           /\ new_block_hash > self.head)
    THEN [self EXCEPT !.head = new_block_hash]
    ELSE self

\* ... the first one to arrive wins, ...
_update_head_first(self, new_block_hash) ==
    IF self.chain_lengths[new_block_hash] > self.chain_lengths[self.head]
    THEN [self EXCEPT !.head = new_block_hash]
    ELSE self

\* ... the old head is dropped from the store when the head moves to a block
\* that is not its child, ...
_update_head_prune(self, new_block_hash) ==
    IF self.chain_lengths[new_block_hash] > self.chain_lengths[self.head]
       \/ (self.chain_lengths[new_block_hash] = self.chain_lengths[self.head]
           /\ new_block_hash < self.head)
    THEN IF self.head # ROOT_HASH /\ self.blocks[new_block_hash].change.old # self.head
         THEN [self EXCEPT !.head = new_block_hash, !.blocks = Del(@, self.head)]
         ELSE [self EXCEPT !.head = new_block_hash]
    ELSE self

\* ... the last one to arrive wins.
_update_head_last(self, new_block_hash) ==
    IF self.chain_lengths[new_block_hash] >= self.chain_lengths[self.head]
    THEN [self EXCEPT !.head = new_block_hash]
    ELSE self

\* new_length is chain_lengths[new_block_hash], head_length chain_lengths[head]
_update_head(self, new_block_hash) ==
    IF self.chain_lengths[new_block_hash] > self.chain_lengths[self.head]
       \/ (self.chain_lengths[new_block_hash] = self.chain_lengths[self.head]
           /\ new_block_hash < self.head)
    THEN [self EXCEPT !.head = new_block_hash]
    ELSE self

\* A faulty variant of _signed_block: the signature made is not verified
_signed_block_unverified(self, change, change_hash, signature, public_key) ==
    [self  |-> self,
     value |-> [block |-> [change |-> change, signature |-> signature]]]

\* The end of create_block: the signature made with privkey is verified with
\* the public key
_signed_block(self, change, change_hash, signature, public_key) ==
    IF change_hash # pow(signature, PublicExponent, public_key)
    THEN [self |-> self, value |-> [error |-> "Wrong key"]]
    ELSE [self  |-> self,
          value |-> [block |-> [change |-> change, signature |-> signature]]]

\* create_block after its call of _is_valid_change, which returned v
_create_checked(v, change, privkey) ==
    IF v.value # None
    THEN [self |-> v.self, value |-> [error |-> v.value]]
    ELSE IF change.src \notin DOMAIN v.self.users
            \/ "key" \notin DOMAIN v.self.users[change.src]
    THEN [self |-> v.self, value |-> [error |-> "Unknown user: " \o change.src]]
    ELSE _signed_block(v.self, change, _hash_change(change),
                       pow(_hash_change(change), privkey, v.self.users[change.src].key),
                       v.self.users[change.src].key)

\* create_block for the change it has built on the head
_create_change(self, change, privkey) ==
    _create_checked(_is_valid_change(self, change, TRUE), change, privkey)

\* A faulty variant of create_block: the change is made on ROOT, not on the
\* head
create_block_root(self, src, dst, n, memo, privkey) ==
    _create_change(self,
                   [old |-> ROOT_HASH, src |-> src, dst |-> dst, n |-> n,
                    memo |-> memo],
                   privkey)

\* [self |-> the object after the call,
\*  value |-> [block |-> the block] or [error |-> the error string]]
create_block(self, src, dst, n, memo, privkey) ==
    _create_change(self,
                   [old |-> self.head, src |-> src, dst |-> dst, n |-> n,
                    memo |-> memo],
                   privkey)

\* A faulty variant of _add_pending: the parent is not asked for
_add_pending_silent(self, block) ==
    [self |-> [self EXCEPT !.pending =
                   Put(@, block.change.old,
                       Append(Get(@, block.change.old, <<>>), block))],
     sent |-> <<>>]

\* add_block where the parent is unknown: the block is appended to
\* pending[old] and the parent is asked for
_add_pending(self, block) ==
    [self |-> [self EXCEPT !.pending =
                   Put(@, block.change.old,
                       Append(Get(@, block.change.old, <<>>), block))],
     sent |-> <<[missing |-> block.change.old]>>]

\* A faulty variant of _store_block: every block gets the chain length 1
_store_block_flat(self, block, block_hash) ==
    [self EXCEPT
        !.blocks = Put(@, block_hash, block),
        !.chain_lengths = Put(@, block_hash, 1),
        !.children = Put(@, block.change.old,
                         Get(@, block.change.old, {}) \cup {block_hash})]

\* The object after the block is entered in blocks, chain_lengths and children
_store_block(self, block, block_hash) ==
    [self EXCEPT
        !.blocks = Put(@, block_hash, block),
        !.chain_lengths = Put(@, block_hash, Get(@, block.change.old, 0) + 1),
        !.children = Put(@, block.change.old,
                         Get(@, block.change.old, {}) \cup {block_hash})]

\* [self |-> the object after the call, sent |-> the dicts passed to send_json]
RECURSIVE add_block(_, _)
RECURSIVE drain_pending(_, _, _)

\* A faulty variant of drain_pending: the blocks that waited are forgotten
drain_pending_forget(self, pending_blocks, sent_so_far) ==
    [self |-> self, sent |-> sent_so_far]

\* A faulty variant of _add_waiting: the entry of the pending buffer is kept
_add_waiting_keep(self, block_hash) ==
    IF block_hash \in DOMAIN self.pending
    THEN drain_pending(self, self.pending[block_hash], <<>>)
    ELSE [self |-> self, sent |-> <<>>]

\* The end of add_block: the blocks that waited for block_hash are added
_add_waiting(self, block_hash) ==
    IF block_hash \in DOMAIN self.pending
    THEN drain_pending([self EXCEPT !.pending = Del(@, block_hash)],
                       self.pending[block_hash], <<>>)
    ELSE [self |-> self, sent |-> <<>>]

\* A faulty variant of _add_checked: the error of _is_valid_change is ignored
_add_checked_lenient(v, block, block_hash) ==
    _add_waiting(_update_head(_store_block(v.self, block, block_hash),
                              block_hash),
                 block_hash)

\* The object after the block is stored behind the calls that returned r
_store_behind(r, block, block_hash) ==
    [self |-> _update_head(_store_block(r.self, block, block_hash), block_hash),
     sent |-> r.sent]

\* A faulty variant of _add_checked: the blocks that waited are added before
\* the block itself is stored
_add_checked_behind(v, block, block_hash) ==
    IF v.value # None
    THEN [self |-> v.self, sent |-> <<>>]
    ELSE _store_behind(_add_waiting(v.self, block_hash), block, block_hash)

\* add_block after its call of _is_valid_change, which returned v
_add_checked(v, block, block_hash) ==
    IF v.value # None
    THEN [self |-> v.self, sent |-> <<>>]
    ELSE _add_waiting(_update_head(_store_block(v.self, block, block_hash),
                                   block_hash),
                      block_hash)

\* A faulty variant of add_block: a block that is stored already is replaced
\* by the copy that arrives
add_block_overwrite(self, block) ==
    IF _hash_change(block.change) \in DOMAIN self.blocks
    THEN [self |-> [self EXCEPT !.blocks[_hash_change(block.change)] = block],
          sent |-> <<>>]
    ELSE IF ~_verify_signature(self, block)
    THEN [self |-> self, sent |-> <<>>]
    ELSE IF block.change.old # ROOT_HASH /\ block.change.old \notin DOMAIN self.blocks
    THEN _add_pending(self, block)
    ELSE _add_checked(_is_valid_change(self, block.change, TRUE), block,
                      _hash_change(block.change))

add_block(self, block) ==
    IF _hash_change(block.change) \in DOMAIN self.blocks
    THEN [self |-> self, sent |-> <<>>]
    ELSE IF ~_verify_signature(self, block)
    THEN [self |-> self, sent |-> <<>>]
    ELSE IF block.change.old # ROOT_HASH /\ block.change.old \notin DOMAIN self.blocks
    THEN _add_pending(self, block)
    ELSE _add_checked(_is_valid_change(self, block.change, TRUE), block,
                      _hash_change(block.change))

\* The rest of the loop after the call of add_block that returned r
_drain_rest(r, pending_blocks, sent_so_far) ==
    drain_pending(r.self, pending_blocks, sent_so_far \o r.sent)

\* for pending_block in pending_blocks: await self.add_block(pending_block, send_json)
drain_pending(self, pending_blocks, sent_so_far) ==
    IF pending_blocks = <<>>
    THEN [self |-> self, sent |-> sent_so_far]
    ELSE _drain_rest(add_block(self, Head(pending_blocks)), Tail(pending_blocks),
                     sent_so_far)

get_head_hash(self) == self.head

\* {k: v for k, v in all_balances.items() if v != 20}, r being the result of
\* _compute_balances(self.head)
_changed_accounts(r) ==
    [self  |-> r.self,
     value |-> [k \in {u \in DOMAIN r.value : r.value[u] # StartBalance}
                    |-> r.value[k]]]

\* [self |-> the object after the call, value |-> the dict returned]
get_accounts(self) == _changed_accounts(_compute_balances(self, self.head))

get_chain(self) == self.blocks

RECURSIVE LiveWalk(_, _, _)
LiveWalk(self, ptr, blockid) ==
    IF ptr = ROOT_HASH THEN FALSE
    ELSE IF ptr = blockid THEN TRUE
    ELSE LiveWalk(self, self.blocks[ptr].change.old, blockid)

\* A faulty variant of is_live: every stored block is live
is_live_stored(self, blockid) == blockid \in DOMAIN self.blocks

is_live(self, blockid) ==
    IF blockid \notin DOMAIN self.blocks THEN FALSE
    ELSE LiveWalk(self, get_head_hash(self), blockid)

-----------------------------------------------------------------------------
(* The environment: what the peers and the local users hand to the engine. *)

\* A peer's signature of a change with a user's private exponent
\* (the computation of create_block on the peer)
Sign(change, user) ==
    pow(_hash_change(change), Secret[user], PubConfig[user].key)

\* The signatures a change is gossiped with: the one made by its src (by alice
\* when src holds no private key) and a number that is not a signature of it.
SignatureChoices(change) ==
    LET signer == IF change.src \in DOMAIN Secret THEN change.src ELSE "alice"
        key == PubConfig[signer].key
        s == Sign(change, signer)
    IN  {s, (s + 1) % key}

\* The private exponents a local user may submit with
PrivKeys == {Secret[u] : u \in DOMAIN Secret}

\* The block with these fields
MakeBlock(b_old, b_src, b_dst, b_n, b_memo, b_signature) ==
    [change |-> [old |-> b_old, src |-> b_src, dst |-> b_dst, n |-> b_n,
                 memo |-> b_memo],
     signature |-> b_signature]

\* The block of a change, signed by its src
Signed(change) == [change |-> change, signature |-> Sign(change, change.src)]

\* alice pays n to bob_b / bob_b pays n out to alice, on the block old
Pay(old, amount) ==
    [old |-> old, src |-> "alice", dst |-> "bob_b", n |-> amount, memo |-> "m"]
Payout(old, amount) ==
    [old |-> old, src |-> "bob_b", dst |-> "alice", n |-> amount, memo |-> "m"]

\* The blocks of the delivery runs: a chain a -> b -> c on ROOT, ...
BlockA == Signed(Pay(ROOT_HASH, 2))
BlockB == Signed(Payout(_hash_change(BlockA.change), 4))
BlockC == Signed(Pay(_hash_change(BlockB.change), 2))
\* ... a sibling of a and a sibling of b (forks of equal length), ...
BlockA4 == Signed(Pay(ROOT_HASH, 4))
BlockB2 == Signed(Pay(_hash_change(BlockA.change), 4))
\* ... a with a second number that verifies as its signature, b with a number
\* that does not, ...
BlockAmal == [BlockA EXCEPT !.signature = @ + PubConfig["alice"].key]
BlockBbad == [BlockB EXCEPT !.signature = (@ + 1) % PubConfig["bob_b"].key]
\* ... a second payout right after b's, a payout nobody paid for, and a block
\* on that one.
BlockQ == Signed(Payout(_hash_change(BlockB.change), 2))
BlockX == Signed(Payout(ROOT_HASH, 2))
BlockY == Signed(Pay(_hash_change(BlockX.change), 2))
\* ... and a payment on a of more than a player may pay
BlockI == Signed(Pay(_hash_change(BlockA.change), 6))

Universe ==
    {BlockA, BlockB, BlockC, BlockA4, BlockB2, BlockAmal, BlockBbad, BlockQ,
     BlockX, BlockY, BlockI}

\* The blocks that the engine run is handed before their parent
Orphans == {BlockB, BlockI}

PendingCount(self) ==
    LET RECURSIVE Sum(_)
        Sum(keys) == IF keys = {} THEN 0
                     ELSE LET k == CHOOSE k \in keys : TRUE
                          IN  Len(self.pending[k]) + Sum(keys \ {k})
    IN  Sum(DOMAIN self.pending)

\* No value returned yet
NoReturn == [none |-> TRUE]

\* The channels between the agents, one <<sender, receiver>> for each direction
Links == {l \in Peers \X Peers : l[1] # l[2]}

\* No message is in flight
NoMessages == [l \in Links |-> <<>>]

\* No /transfer request has been made
NoRequest ==
    [pc |-> "idle", agent |-> None, h |-> ROOT_HASH, attempts |-> 0, k |-> 0,
     status |-> 0, served |-> 0]

\* priv['joined'] = False, and no channel yet
NotJoined == [joined |-> FALSE, channel |-> "none", pulled |-> {}]

\* asyncstartup of a2 has made a task for each of its peers, which waits for
\* ws_connect; pulls tells whether the task has started the pull of the chain
NoTasks == [p \in Peers \ {"a2"} |-> [pc |-> "connecting", pulls |-> FALSE]]

\* game_sessions = {}, and no call of the game server to the agent under way:
\* checks are the calls of verify_payment that wait for /balances, calls the
\* posts of /transfer that the agent has not read yet, paid_out the number of
\* posts of /transfer made for each session
NoGames ==
    [sessions |-> EmptyDict, checks |-> {}, calls |-> <<>>,
     paid_out |-> EmptyDict]

\* The agents after construction (bc_agent.py: BlockChain(), add_users(config))
Fresh == [a \in Peers |-> add_users(NewBlockChain, PubConfig)]

Init ==
    /\ bc = Fresh
    /\ ret = NoReturn
    /\ sent = <<>>
    /\ todo = {}
    /\ offered = [a \in Agents |-> {}]
    /\ got = NoReturn
    /\ net = NoMessages
    /\ req = NoRequest
    /\ boot = NotJoined
    /\ task = NoTasks
    /\ game = NoGames

\* The step of agent a for a call of add_block that returned r
Added(a, r) ==
    /\ Cardinality(DOMAIN r.self.blocks) <= MaxBlocks
    /\ PendingCount(r.self) <= MaxPending
    /\ bc' = [bc EXCEPT ![a] = r.self]
    /\ sent' = r.sent
    /\ ret' = NoReturn

\* One call of add_block on agent a (with its drain of the pending buffer)
AddBlock(a, blk) ==
    /\ InRange(blk.change)
    /\ Added(a, add_block(bc[a], blk))

\* The step of agent a for a call of create_block that returned r
Created(a, r) ==
    /\ bc' = [bc EXCEPT ![a] = r.self]
    /\ ret' = r.value
    /\ sent' = <<>>

\* One call of create_block on agent a
CreateBlock(a, c_src, c_dst, c_n, c_memo, c_privkey) ==
    /\ InRange([old |-> bc[a].head, src |-> c_src, dst |-> c_dst, n |-> c_n,
                memo |-> c_memo])
    /\ Created(a, create_block(bc[a], c_src, c_dst, c_n, c_memo, c_privkey))

\* A block on ROOT or on a stored block arrives from a peer
Gossip ==
    /\ ret = NoReturn
    /\ \E o \in DOMAIN bc["a1"].blocks \cup {ROOT_HASH},
          s \in Names, d \in Names, amount \in Amounts, text \in Memos :
           \E sig \in SignatureChoices(MakeBlock(o, s, d, amount, text, 0).change) :
               AddBlock("a1", MakeBlock(o, s, d, amount, text, sig))
    /\ UNCHANGED <<todo, offered, got, net, req, boot, task, game>>

\* A block arrives before its parent
Orphan ==
    /\ ret = NoReturn
    /\ \E blk \in Orphans :
           /\ blk.change.old \notin DOMAIN bc["a1"].blocks \cup {ROOT_HASH}
           /\ AddBlock("a1", blk)
    /\ UNCHANGED <<todo, offered, got, net, req, boot, task, game>>

\* A local user asks for a block on the current head
Create ==
    /\ ret = NoReturn
    /\ \E s \in Names, d \in Names, amount \in Amounts, text \in Memos,
          key \in PrivKeys :
           CreateBlock("a1", s, d, amount, text, key)
    /\ UNCHANGED <<todo, offered, got, net, req, boot, task, game>>

\* The block create_block returned is admitted
Admit ==
    /\ "block" \in DOMAIN ret
    /\ AddBlock("a1", ret.block)
    /\ UNCHANGED <<todo, offered, got, net, req, boot, task, game>>

\* The error create_block returned is handed to the user
Respond ==
    /\ "error" \in DOMAIN ret
    /\ ret' = NoReturn
    /\ UNCHANGED <<bc, sent, todo, offered, got, net, req, boot, task, game>>

Next == Gossip \/ Orphan \/ Create \/ Admit \/ Respond

Spec == Init /\ [][Next]_vars

-----------------------------------------------------------------------------
(* The delivery runs: a set of blocks is handed to both agents, to a1 in    *)
(* any order and to a2 in the order of the blocks' hashes and signatures.   *)

InitDelivery ==
    /\ bc = Fresh
    /\ ret = NoReturn
    /\ sent = <<>>
    /\ todo \in {S \in SUBSET Universe : Cardinality(S) <= MaxSet}
    /\ offered = [a \in Agents |-> {}]
    /\ got = NoReturn
    /\ net = NoMessages
    /\ req = NoRequest
    /\ boot = NotJoined
    /\ task = NoTasks
    /\ game = NoGames

\* The step of agent a for a call of add_block that returned r
Delivered(a, r) ==
    /\ bc' = [bc EXCEPT ![a] = r.self]
    /\ sent' = r.sent

\* The block blk of the set is handed to agent a
Deliver(a, blk) ==
    /\ blk \in todo \ offered[a]
    /\ Delivered(a, add_block(bc[a], blk))
    /\ offered' = [offered EXCEPT ![a] = @ \cup {blk}]
    /\ UNCHANGED <<ret, todo, got, net, req, boot, task, game>>

\* blk comes before other in a2's order
Before(blk, other) ==
    \/ _hash_change(blk.change) < _hash_change(other.change)
    \/ /\ _hash_change(blk.change) = _hash_change(other.change)
       /\ blk.signature < other.signature

DeliverAny == \E blk \in todo : Deliver("a1", blk)

DeliverInOrder ==
    \E blk \in todo \ offered["a2"] :
        /\ \A other \in todo \ offered["a2"] : other = blk \/ Before(blk, other)
        /\ Deliver("a2", blk)

NextDelivery == DeliverAny \/ DeliverInOrder

SpecDelivery == InitDelivery /\ [][NextDelivery]_vars

-----------------------------------------------------------------------------
(* The request runs: a1 handles /transfer requests of its user while a set  *)
(* of blocks arrives from its peers.                                        *)

\* for k in range(6)
Probes == 6

\* The users that can log in at an agent and whose private exponent the
\* agent's private configuration holds; alice has an account at two agents
Accounts ==
    [a \in Peers |->
        CASE a = "a1" -> {"alice"}
          [] a = "a2" -> {"bob_b"}
          [] a = "a3" -> {"alice"}]

\* The keys under which values are entered in the app object, by main and by
\* asyncstartup
AppKeys == {"k_bc", "k_pub", "k_priv", "k_booths", "k_players", "client"}

\* A faulty variant of broadcast: the data goes to one of the peers only
broadcast_one(queues, a, data) ==
    [l \in Links |->
        IF l[1] = a /\ l[2] = (CHOOSE p \in Peers \ {a} : TRUE)
        THEN Append(queues[l], data)
        ELSE queues[l]]

\* The channels after  for ws in allws: ws.send_json(data)  at agent a
broadcast(queues, a, data) ==
    [l \in Links |-> IF l[1] = a THEN Append(queues[l], data) ELSE queues[l]]

\* The request ends with a response of this status
Responded(status) ==
    [req EXCEPT !.pc = "done", !.status = status]

\* new_block after its call of add_block, which returned r: the block is
\* broadcast and the handler sleeps before its first probe
TransferAdded(a, block, r) ==
    /\ bc' = [bc EXCEPT ![a] = r.self]
    /\ IF Len(r.sent) > 0
       THEN /\ req' = [Responded(500) EXCEPT !.agent = a, !.served = @ + 1]
            /\ net' = net
       ELSE /\ req' = [pc |-> "sleeping", agent |-> a,
                       h |-> _hash_change(block.change), attempts |-> 1,
                       k |-> 0, status |-> 0, served |-> req.served + 1]
            /\ net' = broadcast(net, a, block)

\* new_block after its call of create_block, which returned r
TransferCreated(a, r) ==
    IF "error" \in DOMAIN r.value
    THEN /\ bc' = [bc EXCEPT ![a] = r.self]
         /\ req' = [Responded(400) EXCEPT !.agent = a, !.served = @ + 1]
         /\ net' = net
    ELSE TransferAdded(a, r.value.block, add_block(r.self, r.value.block))

\* A user of agent a posts a transfer: new_block up to its first sleep
Transfer ==
    /\ req.pc # "sleeping"
    /\ req.served < MaxRequests
    /\ \E a \in Peers :
           \E user \in Accounts[a], dst \in Names, n \in Amounts, memo \in Memos :
               /\ InRange([old |-> bc[a].head, src |-> user, dst |-> dst,
                           n |-> n, memo |-> memo])
               /\ TransferCreated(a, create_block(bc[a], user, dst, n, memo,
                                                  Secret[user]))
    /\ UNCHANGED <<ret, sent, todo, offered, got, boot, task, game>>

\* The call of line 154: its argument request.app['pk'] is looked up first,
\* and the call names no src
Resubmit ==
    IF "pk" \notin AppKeys
    THEN Responded(500)
    ELSE Responded(500)

\* The handler wakes up and probes: is the block still live?  After the last
\* probe it responds.
Probe ==
    /\ req.pc = "sleeping"
    /\ req' = IF ~is_live(bc[req.agent], req.h)
              THEN Resubmit
              ELSE IF req.k + 1 = Probes
              THEN [Responded(200) EXCEPT !.k = @ + 1]
              ELSE [req EXCEPT !.k = @ + 1]
    /\ UNCHANGED <<bc, ret, sent, todo, offered, got, net, boot, task, game>>

NextTransfer == DeliverAny \/ Transfer \/ Probe

SpecTransfer == InitDelivery /\ [][NextTransfer]_vars

-----------------------------------------------------------------------------
(* The network runs: three agents with the same registry and empty chains,  *)
(* every pair with an open channel; users of a1 and a2 post transfers.  A   *)
(* channel is the queue of the dicts passed to send_json and not yet read   *)
(* by use_ws; json.dumps and msg.json() give back the dict that was sent,   *)
(* Python's JSON ints being of any size.                                    *)

InitNet ==
    /\ bc = Fresh
    /\ ret = NoReturn
    /\ sent = <<>>
    /\ todo = {}
    /\ offered = [a \in Agents |-> {}]
    /\ got = NoReturn
    /\ net = NoMessages
    /\ req = NoRequest
    /\ boot = [joined |-> TRUE, channel |-> "open", pulled |-> {}]
    /\ task = [p \in Peers \ {"a2"} |-> [pc |-> "open", pulls |-> p = "a1"]]
    /\ game = NoGames

\* A faulty variant of missing_reply: a block off the live path is not sent
missing_reply_live(self, h) ==
    IF is_live(self, h)
    THEN [self |-> self, sent |-> <<get_chain(self)[h]>>]
    ELSE [self |-> self, sent |-> <<>>]

\* The answer of use_ws to {'missing': h}
missing_reply(self, h) ==
    IF h \in DOMAIN get_chain(self)
    THEN [self |-> self, sent |-> <<get_chain(self)[h]>>]
    ELSE [self |-> self, sent |-> <<>>]

\* The step of agent a for a message of peer from whose handling returned r:
\* what was passed to ws.send_json goes to the channel's other end
Received(a, from, r) ==
    /\ bc' = [bc EXCEPT ![a] = r.self]
    /\ net' = [net EXCEPT ![<<from, a>>] = Tail(@),
                          ![<<a, from>>] = @ \o r.sent]

\* use_ws of agent a reads the next message of its channel with peer from
Receive(a, from) ==
    /\ net[<<from, a>>] # <<>>
    /\ IF DOMAIN Head(net[<<from, a>>]) = {"missing"}
       THEN Received(a, from,
                     missing_reply(bc[a], Head(net[<<from, a>>]).missing))
       ELSE Received(a, from, add_block(bc[a], Head(net[<<from, a>>])))
    /\ UNCHANGED <<ret, sent, todo, offered, got, req, boot, task, game>>

NextNet == Transfer \/ Probe \/ \E l \in Links : Receive(l[2], l[1])

\* The event loop runs every task that can run: a handler that sleeps wakes
\* up, and a message that has arrived is read.  The second is the weak
\* fairness of Receive(l[2], l[1]) with its ENABLED written out: the action
\* can be taken, and then changes net, exactly when the queue is not empty.
FairNet ==
    /\ WF_vars(Probe)
    /\ \A l \in Links :
          \/ []<>(net[l] = <<>>)
          \/ []<><<Receive(l[2], l[1])>>_vars

SpecNet == InitNet /\ [][NextNet]_vars /\ FairNet

-----------------------------------------------------------------------------
(* The bootstrap runs: a1 is handed a set of blocks; a2 opens its first     *)
(* channel, to a1, and pulls a1's chain.                                    *)

\* 0x7fffffff on the scale of the model, whose hashes and signatures are
\* numbers of 20 bits for the program's numbers of 256 bits and more: the
\* ticket counts of the alphabet are not above it
BrowserMax == 11

\* e > 0x7fffffff; ROOT_HASH, which the model writes as 0, is a number of
\* 255 bits
IsBig(e) == e = ROOT_HASH \/ e > BrowserMax

\* fixer of an int: the int, or the string of its decimal digits
\* (str tells which, val is the number that is written)
fixer(e) == [str |-> IsBig(e), val |-> e]

\* fixer of a block
fixer_block(block) ==
    [change |-> [old |-> fixer(block.change.old), src |-> block.change.src,
                 dst |-> block.change.dst, n |-> fixer(block.change.n),
                 memo |-> block.change.memo],
     signature |-> fixer(block.signature)]

\* The JSON object that GET /chain returns, as resp.json() reads it
full_blockchain(self) ==
    [h \in DOMAIN get_chain(self) |-> fixer_block(get_chain(self)[h])]

\* The orders in which the dict of an agent's blocks may list them: a block
\* was entered after its parent
Orders(self) ==
    {order \in [1..Cardinality(DOMAIN self.blocks) -> DOMAIN self.blocks] :
        /\ \A i, j \in DOMAIN order : order[i] = order[j] => i = j
        /\ \A i, j \in DOMAIN order :
               order[i] = self.blocks[order[j]].change.old => i < j}

\* The change of a JSON object with its numbers as numbers
PlainChange(jchange) ==
    [old |-> jchange.old.val, src |-> jchange.src, dst |-> jchange.dst,
     n |-> jchange.n.val, memo |-> jchange.memo]

\* _hash_change of the change of a JSON object: where a number of the change
\* is written as a string the canonical JSON is another text, and the hash a
\* number that no change with numbers has
_hash_json(jchange) ==
    IF jchange.old.str \/ jchange.n.str
    THEN 0 - (1 + _hash_change(PlainChange(jchange)))
    ELSE _hash_change(PlainChange(jchange))

\* add_block of a block as resp.json() gives it, with the sender ignore
\* [self |-> the object after the call, raised |-> an exception left the call]
add_block_json(self, jblock) ==
    IF _hash_json(jblock.change) \in DOMAIN self.blocks
    THEN [self |-> self, raised |-> FALSE]
    ELSE IF jblock.change.src \notin DOMAIN self.users
            \/ "key" \notin DOMAIN self.users[jblock.change.src]
    THEN [self |-> self, raised |-> FALSE]
    ELSE IF jblock.signature.str
    THEN [self |-> self, raised |-> TRUE]
    ELSE IF _hash_json(jblock.change)
                # pow(jblock.signature.val, PublicExponent,
                      self.users[jblock.change.src].key)
    THEN [self |-> self, raised |-> FALSE]
    ELSE [self   |-> add_block(self, [change |-> PlainChange(jblock.change),
                                      signature |-> jblock.signature.val]).self,
          raised |-> FALSE]

\* for b in (await resp.json()).values(): await app[k_bc].add_block(b, ignore)
RECURSIVE pull(_, _)

\* The rest of the loop after the call of add_block that returned r
_pull_rest(r, jblocks) ==
    IF r.raised THEN r ELSE pull(r.self, jblocks)

pull(self, jblocks) ==
    IF jblocks = <<>>
    THEN [self |-> self, raised |-> FALSE]
    ELSE _pull_rest(add_block_json(self, Head(jblocks)), Tail(jblocks))

\* The step of agent a whose pull of the blocks with the hashes pulled
\* returned r: an exception is caught by helper, which then does not go on to
\* use_ws
Contacted(a, r, pulled) ==
    /\ bc' = [bc EXCEPT ![a] = r.self]
    /\ boot' = [joined |-> TRUE,
                channel |-> IF r.raised THEN "failed" ELSE "open",
                pulled |-> pulled]

\* a2's first channel opens, to a1: helper of contact_in_background
Contact ==
    /\ ~boot.joined
    /\ \E order \in Orders(bc["a1"]) :
           Contacted("a2",
                     pull(bc["a2"],
                          [i \in DOMAIN order |-> full_blockchain(bc["a1"])[order[i]]]),
                     DOMAIN bc["a1"].blocks)
    /\ UNCHANGED <<ret, sent, todo, offered, got, net, req, task, game>>

NextBootstrap == DeliverAny \/ Contact

SpecBootstrap == InitDelivery /\ [][NextBootstrap]_vars

-----------------------------------------------------------------------------
(* The query runs: a set of blocks is handed to a1 in any order while a     *)
(* caller asks for the balances and the paid status at ROOT and at stored   *)
(* blocks and changes the dicts it gets.                                    *)

\* The step of agent a for a query of the cache that returned r: the caller
\* holds the dict returned
Queried(a, cache, r) ==
    /\ bc' = [bc EXCEPT ![a] = r.self]
    /\ got' = [cache |-> cache, value |-> r.value, alias |-> r.alias]
    /\ UNCHANGED <<ret, sent, todo, offered, net, req, boot, task, game>>

QueryBalances ==
    \E h \in DOMAIN bc["a1"].blocks \cup {ROOT_HASH} :
        Queried("a1", "balances_cache", _compute_balances(bc["a1"], h))

QueryPaid ==
    \E h \in DOMAIN bc["a1"].blocks \cup {ROOT_HASH} :
        Queried("a1", "paid_cache", _compute_paid_status(bc["a1"], h))

\* What a caller may make of a dict in place: delete a key, or enter alice
\* with a value of the dict's kind
Mutations(cache, value) ==
    {Del(value, k) : k \in DOMAIN value}
    \cup {Put(value, "alice", IF cache = "paid_cache" THEN {"alice_b"} ELSE 0)}

\* The caller changes the dict it holds in place and lets go of it
Mutate ==
    /\ got # NoReturn
    /\ \E value \in Mutations(got.cache, got.value) :
           bc' = [bc EXCEPT !["a1"][got.cache] = ChangedInPlace(@, got.alias, value)]
    /\ got' = NoReturn
    /\ UNCHANGED <<ret, sent, todo, offered, net, req, boot, task, game>>

NextQuery == DeliverAny \/ QueryBalances \/ QueryPaid \/ Mutate

SpecQuery == InitDelivery /\ [][NextQuery]_vars

-----------------------------------------------------------------------------
(* The /getlive runs: a1 is handed a set of blocks while a client asks      *)
(* whether blocks are live.                                                 *)

\* The numbers a client may post: the hash of any block of the universe,
\* stored or not, and ROOT_HASH
BlockIds == {_hash_change(blk.change) : blk \in Universe} \cup {ROOT_HASH}

\* get_live after get_block returned block
_get_live_block(self, blockid, block) ==
    IF block = <<>>
    THEN [blockid |-> blockid, status |-> 400, body |-> "No block"]
    ELSE IF ~is_live(self, blockid)
    THEN [blockid |-> blockid, status |-> 400, body |-> "dead branch"]
    ELSE [blockid |-> blockid, status |-> 200, body |-> block[1]]

\* self.blocks.get(blockid): <<>> for None, <<block>> for a block
get_block(self, blockid) ==
    IF blockid \in DOMAIN self.blocks THEN <<self.blocks[blockid]>> ELSE <<>>

\* The response of POST /getlive
get_live(self, blockid) ==
    _get_live_block(self, blockid, get_block(self, blockid))

\* A client posts a block id to a1
GetLive ==
    /\ \E blockid \in BlockIds : got' = get_live(bc["a1"], blockid)
    /\ UNCHANGED <<bc, ret, sent, todo, offered, net, req, boot, task, game>>

NextLive == DeliverAny \/ GetLive

SpecLive == InitDelivery /\ [][NextLive]_vars

-----------------------------------------------------------------------------
(* The spending runs: alice posts one transfer after the other at a1, each  *)
(* on the head that the one before has made.                                *)

\* The model's hash of the change is not the hash of a stored block
Unused(self, change) ==
    _hash_change(change) \notin DOMAIN self.blocks \cup {ROOT_HASH}

\* A user of a1 posts a transfer: new_block up to its first sleep
Spend ==
    /\ req.pc # "sleeping"
    /\ req.served < MaxSpends
    /\ \E user \in Accounts["a1"], dst \in Names, n \in Amounts, memo \in Memos :
           /\ Unused(bc["a1"], [old |-> bc["a1"].head, src |-> user,
                                dst |-> dst, n |-> n, memo |-> memo])
           /\ TransferCreated("a1", create_block(bc["a1"], user, dst, n, memo,
                                                 Secret[user]))
    /\ UNCHANGED <<ret, sent, todo, offered, got, boot, task, game>>

NextSpend == Spend \/ Probe

SpecSpend == InitNet /\ [][NextSpend]_vars

-----------------------------------------------------------------------------
(* The service runs: a1 is handed a set of blocks while its peers ask it    *)
(* for blocks, one request at a time.                                       *)

\* A peer sends {'missing': blockid} to a1
Ask ==
    /\ \A l \in Links : net[l] = <<>>
    /\ \E from \in Peers \ {"a1"}, blockid \in BlockIds :
           net' = [net EXCEPT ![<<from, "a1">>] = <<[missing |-> blockid]>>]
    /\ UNCHANGED <<bc, ret, sent, todo, offered, got, req, boot, task, game>>

\* use_ws of a1 reads the request
Serve == \E from \in Peers \ {"a1"} : Receive("a1", from)

NextService == DeliverAny \/ Ask \/ Serve

SpecService == InitDelivery /\ [][NextService]_vars

-----------------------------------------------------------------------------
(* The election runs: a1 is handed a set of blocks while the two background *)
(* tasks of a2, one for each peer, open their channels.                     *)

\* A faulty variant of _joined_set: the flag is left as it is until the pull
\* is over
_joined_kept(joined) == joined

\* priv['joined'] after  if not joined: joined = True
_joined_set(joined) == TRUE

\* ws_connect to peer p has returned: helper goes on, without a suspension,
\* to test and set the flag, and then waits for GET /chain or enters use_ws
Open(p) ==
    /\ task[p].pc = "connecting"
    /\ task' = [task EXCEPT ![p] = IF boot.joined
                                   THEN [pc |-> "open", pulls |-> FALSE]
                                   ELSE [pc |-> "pulling", pulls |-> TRUE]]
    /\ boot' = [boot EXCEPT !.joined = _joined_set(@)]
    /\ UNCHANGED <<bc, ret, sent, todo, offered, got, net, req, game>>

\* ws_connect or session.get raises: except BaseException ends the task
Refuse(p) ==
    /\ task[p].pc \in {"connecting", "pulling"}
    /\ task' = [task EXCEPT ![p].pc = "failed"]
    /\ UNCHANGED <<bc, ret, sent, todo, offered, got, net, req, boot, game>>

\* The step of the task for peer p whose pull returned r
Fetched(p, r, pulled) ==
    /\ Contacted("a2", r, pulled)
    /\ task' = [task EXCEPT ![p].pc = IF r.raised THEN "failed" ELSE "open"]

\* The response to GET /chain of peer p has arrived: the loop of add_block
Fetch(p) ==
    /\ task[p].pc = "pulling"
    /\ \E order \in Orders(bc[p]) :
           Fetched(p,
                   pull(bc["a2"],
                        [i \in DOMAIN order |-> full_blockchain(bc[p])[order[i]]]),
                   DOMAIN bc[p].blocks)
    /\ UNCHANGED <<ret, sent, todo, offered, got, net, req, game>>

NextElection ==
    \/ DeliverAny
    \/ \E p \in DOMAIN task : Open(p)
    \/ \E p \in DOMAIN task : Refuse(p)
    \/ \E p \in DOMAIN task : Fetch(p)

SpecElection == InitDelivery /\ [][NextElection]_vars

-----------------------------------------------------------------------------
(* The game runs: the game server of the booth bob_b runs beside agent a2,  *)
(* which is handed the player's payment and a payout of the booth.  A card  *)
(* is its rank, as no code reads its suit; the deck has five cards in place *)
(* of fifty-two.                                                            *)

\* The single booth of a2's private config
USER == CHOOSE u \in Accounts["a2"] : _is_booth(u)

\* create_deck: six of the orders that random.shuffle can give to the ranks
\* A, K, 9, 6 and 2; they bring every result of /stand, with and without a
\* card for the dealer, and a /hit that busts and one that does not
Decks ==
    {<<"K", "A", "2", "9", "6">>, <<"6", "A", "2", "K", "9">>,
     <<"A", "K", "9", "6", "2">>, <<"K", "9", "6", "A", "2">>,
     <<"A", "K", "6", "9", "2">>, <<"2", "A", "6", "K", "9">>}

\* generate_memo: "m" is the memo of the payments, "x" is on no block
SessionMemos == Memos \cup {"x"}

\* int(card['rank'])
RankInt == ("2" :> 2) @@ ("6" :> 6) @@ ("9" :> 9)

\* What one card adds to total in hand_value
RankValue(rank) ==
    IF rank = "A" THEN 11
    ELSE IF rank \in {"J", "Q", "K"} THEN 10
    ELSE RankInt[rank]

RECURSIVE _hand_total(_)
\* The for loop of hand_value
_hand_total(hand) ==
    IF hand = <<>> THEN 0
    ELSE RankValue(Head(hand)) + _hand_total(Tail(hand))

RECURSIVE _soften(_, _)
\* The while loop of hand_value
_soften(total, aces) ==
    IF total > 21 /\ aces > 0 THEN _soften(total - 10, aces - 1) ELSE total

hand_value(hand) ==
    _soften(_hand_total(hand),
            Cardinality({i \in DOMAIN hand : hand[i] = "A"}))

\* list.pop(): the last card, and the list without it
Top(deck) == deck[Len(deck)]
Rest(deck) == SubSeq(deck, 1, Len(deck) - 1)

\* The session that index stores for a shuffled deck; the keys 'player' and
\* 'bet_amount', which verify_payment adds, are None and 0 until then
NewSession(deck) ==
    [deck |-> SubSeq(deck, 1, Len(deck) - 4),
     player_hand |-> <<deck[Len(deck)], deck[Len(deck) - 1]>>,
     dealer_hand |-> <<deck[Len(deck) - 2], deck[Len(deck) - 3]>>,
     paid |-> FALSE, game_over |-> FALSE, result |-> None,
     player |-> None, bet_amount |-> 0]

\* GET /: a new session under a memo that no session has
index ==
    /\ \E memo \in SessionMemos \ DOMAIN game.sessions, deck \in Decks :
           game' = [game EXCEPT
                       !.sessions = Put(@, memo, NewSession(deck)),
                       !.paid_out = Put(@, memo, 0)]
    /\ UNCHANGED <<bc, ret, sent, todo, offered, got, net, req, boot, task>>

\* verify_payment after /getlive answered live: the checks of the block, then
\* the request of /balances is on its way
_verify_block(memo, live) ==
    IF live.status # 200
    THEN game
    ELSE IF \/ live.body.change.dst # USER
            \/ live.body.change.memo # memo
            \/ live.body.change.n < 1
    THEN game
    ELSE [game EXCEPT !.checks = @ \cup {[memo |-> memo,
                                          src |-> live.body.change.src,
                                          n |-> live.body.change.n]}]

\* POST /verify_payment up to its request of /balances
verify_payment ==
    /\ \E memo \in SessionMemos, block_hash \in BlockIds :
           IF memo \notin DOMAIN game.sessions
           THEN game' = game
           ELSE game' = _verify_block(memo, get_live(bc["a2"], block_hash))
    /\ UNCHANGED <<bc, ret, sent, todo, offered, got, net, req, boot, task>>

\* balances.get(src_user, 20)
_player_balance(balances, src_user) ==
    IF src_user \in DOMAIN balances THEN balances[src_user] ELSE StartBalance

\* verify_payment after /balances answered, or failed when balances is <<>>
_verify_balance(check, balances) ==
    IF balances # <<>> /\ _player_balance(balances[1], check.src) < 0
    THEN [game EXCEPT !.checks = @ \ {check}]
    ELSE [game EXCEPT !.checks = @ \ {check},
                      !.sessions[check.memo].paid = TRUE,
                      !.sessions[check.memo].player = check.src,
                      !.sessions[check.memo].bet_amount = check.n]

\* POST /verify_payment from the answer of /balances on
verified ==
    /\ \E check \in game.checks, failed \in BOOLEAN :
           game' = _verify_balance(check, IF failed THEN <<>>
                                          ELSE <<get_accounts(bc["a2"])>>)
    /\ UNCHANGED <<bc, ret, sent, todo, offered, got, net, req, boot, task>>

\* The guards of /hit and /stand on the session
_may_play_paid(session) == session.paid

_may_play(session) == session.paid /\ ~session.game_over

\* /hit after its guards
_hit(session, player_hand) ==
    IF hand_value(player_hand) > 21
    THEN [session EXCEPT !.deck = Rest(@), !.player_hand = player_hand,
                         !.game_over = TRUE, !.result = "bust"]
    ELSE [session EXCEPT !.deck = Rest(@), !.player_hand = player_hand]

\* POST /hit
hit ==
    /\ \E memo \in SessionMemos :
           IF memo \notin DOMAIN game.sessions
           THEN game' = game
           ELSE IF ~_may_play(game.sessions[memo])
           THEN game' = game
           ELSE IF Len(game.sessions[memo].deck) = 0
           THEN game' = game
           ELSE game' = [game EXCEPT !.sessions[memo] =
                            _hit(@, Append(@.player_hand, Top(@.deck)))]
    /\ UNCHANGED <<bc, ret, sent, todo, offered, got, net, req, boot, task>>

RECURSIVE _dealer_plays(_)
\* The while loop of /stand
_dealer_plays(session) ==
    IF hand_value(session.dealer_hand) < 17 /\ Len(session.deck) # 0
    THEN _dealer_plays([session EXCEPT
                           !.dealer_hand = Append(@, Top(session.deck)),
                           !.deck = Rest(@)])
    ELSE session

\* result and tickets of /stand
_settle(player_value, dealer_value, bet_amount) ==
    IF dealer_value > 21
    THEN [result |-> "win", tickets |-> bet_amount * 2]
    ELSE IF player_value > dealer_value
    THEN [result |-> "win", tickets |-> bet_amount * 2]
    ELSE IF player_value = dealer_value
    THEN [result |-> "push", tickets |-> bet_amount]
    ELSE [result |-> "lose", tickets |-> 0]

\* /stand after the dealer played: the session is over, and /transfer is
\* posted if tickets > -1
_stand(memo, session, settled) ==
    IF settled.tickets > -1
    THEN [game EXCEPT
             !.sessions[memo] = [session EXCEPT !.game_over = TRUE,
                                                !.result = settled.result],
             !.calls = Append(@, [dst |-> session.player,
                                  n |-> settled.tickets, memo |-> memo]),
             !.paid_out[memo] = @ + 1]
    ELSE [game EXCEPT
             !.sessions[memo] = [session EXCEPT !.game_over = TRUE,
                                                !.result = settled.result]]

_stood(memo, session) ==
    _stand(memo, session, _settle(hand_value(session.player_hand),
                                  hand_value(session.dealer_hand),
                                  session.bet_amount))

\* POST /stand up to its post of /transfer
stand ==
    /\ \E memo \in SessionMemos :
           IF memo \notin DOMAIN game.sessions
           THEN game' = game
           ELSE IF ~_may_play(game.sessions[memo])
           THEN game' = game
           ELSE game' = _stood(memo, _dealer_plays(game.sessions[memo]))
    /\ UNCHANGED <<bc, ret, sent, todo, offered, got, net, req, boot, task>>

\* Agent a2 reads the post of /transfer, which the game server made as USER
\* with a memo of secrets.token_hex(4): new_block up to its first sleep
payout ==
    /\ req.pc # "sleeping"
    /\ game.calls # <<>>
    /\ InRange([old |-> bc["a2"].head, src |-> USER,
                dst |-> Head(game.calls).dst, n |-> Head(game.calls).n,
                memo |-> MemoSeq[1]])
    /\ TransferCreated("a2", create_block(bc["a2"], USER, Head(game.calls).dst,
                                          Head(game.calls).n, MemoSeq[1],
                                          Secret[USER]))
    /\ game' = [game EXCEPT !.calls = Tail(@)]
    /\ UNCHANGED <<ret, sent, todo, offered, got, boot, task>>

\* The agent has the payment of alice and a payout of bob_b to receive
InitGame ==
    /\ InitDelivery
    /\ todo = {BlockA, BlockB}

NextGame ==
    \/ DeliverInOrder
    \/ index
    \/ verify_payment
    \/ verified
    \/ hit
    \/ stand
    \/ payout
    \/ Probe

SpecGame == InitGame /\ [][NextGame]_vars

-----------------------------------------------------------------------------
(* Properties of the head. *)

\* C1: in every reachable state of an agent the head is the best stored
\* block: every stored block h is shorter than the head, or as long with
\* head <= h; and the head is ROOT only when the store is empty.
HeadIsBest ==
    \A a \in Agents :
        LET self == bc[a]
        IN  /\ \A h \in DOMAIN self.blocks :
                  \/ self.chain_lengths[h] < self.chain_lengths[self.head]
                  \/ /\ self.chain_lengths[h] = self.chain_lengths[self.head]
                     /\ self.head <= h
            /\ self.head = ROOT_HASH => DOMAIN self.blocks = {}

\* The head has won against a stored block of its own length and against a
\* shorter one.
HeadIsBestWitness ==
    LET self == bc["a1"]
    IN  /\ \E h \in DOMAIN self.blocks :
               /\ h # self.head
               /\ self.chain_lengths[h] = self.chain_lengths[self.head]
        /\ \E h \in DOMAIN self.blocks :
               self.chain_lengths[h] < self.chain_lengths[self.head]

-----------------------------------------------------------------------------
(* Properties of the delivery runs. *)

AllOffered == \A a \in Agents : offered[a] = todo

StoredChanges(self) == {self.blocks[h].change : h \in DOMAIN self.blocks}

\* C2 as stated: when all blocks of a set have been offered to two agents, in
\* whatever orders, the agents hold the same stored blocks and the same head.
SameBlocksAndHead ==
    AllOffered =>
        /\ bc["a1"].blocks = bc["a2"].blocks
        /\ bc["a1"].head = bc["a2"].head

\* C2, amended: when all blocks of a set have been offered to two agents, in
\* whatever orders, the agents have stored the same changes under the same
\* hashes and have the same head (the signatures the stored blocks carry may
\* differ).
SameChangesAndHead ==
    AllOffered =>
        /\ DOMAIN bc["a1"].blocks = DOMAIN bc["a2"].blocks
        /\ StoredChanges(bc["a1"]) = StoredChanges(bc["a2"])
        /\ \A h \in DOMAIN bc["a1"].blocks :
               bc["a1"].blocks[h].change = bc["a2"].blocks[h].change
        /\ bc["a1"].head = bc["a2"].head

\* Both agents were offered the MaxSet blocks of a chain, a1 in another order
\* than a2, so that they hold different signatures of one change.
SameChangesAndHeadWitness ==
    /\ AllOffered
    /\ todo = {BlockA, BlockAmal, BlockB}
    /\ bc["a1"].head = _hash_change(BlockB.change)
    /\ bc["a1"].blocks # bc["a2"].blocks

-----------------------------------------------------------------------------
(* Properties of is_live. *)

LiveBlocks(self) == {h \in DOMAIN self.blocks : is_live(self, h)}

\* C3 as stated: when a step admits no block that is longer than the head
\* was before the step, every block that was live is live after it.
LiveUnlessLonger ==
    [][\A a \in Agents :
           (\A new \in DOMAIN bc'[a].blocks \ DOMAIN bc[a].blocks :
                bc'[a].chain_lengths[new] <= bc[a].chain_lengths[bc[a].head])
           => LiveBlocks(bc[a]) \subseteq LiveBlocks(bc'[a])]_vars

\* C3, amended: when a step admits no block that is longer than the head was
\* before the step, and none of the head's length with a smaller hash than
\* the head's, every block that was live is live after it.
LiveUnlessBetter ==
    [][\A a \in Agents :
           (\A new \in DOMAIN bc'[a].blocks \ DOMAIN bc[a].blocks :
                \/ bc'[a].chain_lengths[new] < bc[a].chain_lengths[bc[a].head]
                \/ /\ bc'[a].chain_lengths[new] = bc[a].chain_lengths[bc[a].head]
                   /\ new > bc[a].head)
           => LiveBlocks(bc[a]) \subseteq LiveBlocks(bc'[a])]_vars

\* A block below the head is live and the store holds a block of the head's
\* length that is not: one of the two was admitted while the other was the
\* head.
LiveUnlessBetterWitness ==
    LET self == bc["a1"]
    IN  /\ \E h \in DOMAIN self.blocks : h # self.head /\ is_live(self, h)
        /\ \E g \in DOMAIN self.blocks :
               /\ ~is_live(self, g)
               /\ self.chain_lengths[g] = self.chain_lengths[self.head]

-----------------------------------------------------------------------------
(* Properties of the pending buffer. *)

\* The blocks that wait in the pending buffer
PendingBlocks(self) ==
    UNION {{self.pending[k][i] : i \in DOMAIN self.pending[k]} : k \in DOMAIN self.pending}

\* The blocks of the chain a -> b -> c, a with either of its signatures
ChainOffered(a) ==
    /\ BlockA \in offered[a] \/ BlockAmal \in offered[a]
    /\ BlockB \in offered[a]
    /\ BlockC \in offered[a]

\* C4: when the blocks of the valid chain a -> b -> c have all been offered to
\* an agent, in whatever order, its store holds the three, none of them waits
\* in the pending buffer, and its head is c (the only block of its length).
ChainDrained ==
    \A a \in Agents :
        ChainOffered(a) =>
            /\ {_hash_change(BlockA.change), _hash_change(BlockB.change),
                _hash_change(BlockC.change)} \subseteq DOMAIN bc[a].blocks
            /\ bc[a].blocks[_hash_change(BlockB.change)] = BlockB
            /\ bc[a].blocks[_hash_change(BlockC.change)] = BlockC
            /\ PendingBlocks(bc[a]) \cap {BlockA, BlockAmal, BlockB, BlockC} = {}
            /\ get_head_hash(bc[a]) = _hash_change(BlockC.change)

\* a1 has been offered the three blocks of the chain, in one of the six
\* orders, and a2 none of them yet.
ChainDrainedWitness ==
    /\ todo = {BlockA, BlockB, BlockC}
    /\ offered["a1"] = todo
    /\ offered["a2"] = {}
    /\ sent = <<>>
    /\ get_head_hash(bc["a1"]) = _hash_change(BlockC.change)

\* C5: a call of add_block passes exactly one message to its sender, the
\* request {missing: old}, when the block is new, its signature verifies and
\* its parent is neither ROOT nor stored; in every other case, with all the
\* calls made for the blocks that waited for it, it passes none.
OneRequestPerOrphan ==
    \A a \in Agents :
        \A blk \in Universe :
            LET self == bc[a]
                old == blk.change.old
                r == add_block(self, blk)
            IN  IF /\ _hash_change(blk.change) \notin DOMAIN self.blocks
                   /\ _verify_signature(self, blk)
                   /\ old # ROOT_HASH
                   /\ old \notin DOMAIN self.blocks
                THEN r.sent = <<[missing |-> old]>>
                ELSE r.sent = <<>>

\* The last call was handed b before a and asked for a.
OneRequestPerOrphanWitness ==
    /\ sent = <<[missing |-> _hash_change(BlockA.change)]>>
    /\ BlockB \in PendingBlocks(bc["a1"])
    /\ BlockC \in PendingBlocks(bc["a1"])

-----------------------------------------------------------------------------
(* Properties of the stored blocks. *)

\* The names of the alphabet that end in _b
BoothNames == {"alice_b", "bob_b"}

\* From the block ptr towards ROOT, the first transfer between the player and
\* the booth is a payment of the player
RECURSIVE LastWasPayment(_, _, _, _)
LastWasPayment(self, ptr, player, booth) ==
    IF ptr = ROOT_HASH THEN FALSE
    ELSE LET change == self.blocks[ptr].change
         IN  IF change.src = player /\ change.dst = booth THEN TRUE
             ELSE IF change.src = booth /\ change.dst = player THEN FALSE
             ELSE LastWasPayment(self, change.old, player, booth)

\* C6: above every stored payout of a booth to a player, the nearest transfer
\* between the two on the chain is a payment of the player to the booth: the
\* first payout on a chain follows a payment, and between two payouts there is
\* a payment.
PayoutsArePaidFor ==
    \A a \in Agents :
        \A h \in DOMAIN bc[a].blocks :
            LET change == bc[a].blocks[h].change
            IN  change.src \in BoothNames /\ change.dst \notin BoothNames
                => LastWasPayment(bc[a], change.old, change.dst, change.src)

\* A payout on a payment is the head, and a second payout on it has just
\* been refused.
PayoutsArePaidForWitness ==
    LET self == bc["a1"]
    IN  /\ ret = [error |-> "Not paid"]
        /\ self.head # ROOT_HASH
        /\ self.blocks[self.head].change.src = "bob_b"
        /\ self.chain_lengths[self.head] = 2

\* C7: every stored block satisfies the rules that look at the change alone:
\* src and dst are registered, exactly one of them is a booth, the booth is
\* not the player's namesake, and n is in 1..5 from a player and in 0..10 from
\* a booth.
StoredAreWellFormed ==
    \A a \in Agents :
        \A h \in DOMAIN bc[a].blocks :
            LET change == bc[a].blocks[h].change
                src == change.src
                dst == change.dst
            IN  /\ src \in DOMAIN PubConfig
                /\ dst \in DOMAIN PubConfig
                /\ (src \in BoothNames) # (dst \in BoothNames)
                /\ src \in BoothNames => src # dst \o "_b"
                /\ dst \in BoothNames => dst # src \o "_b"
                /\ src \in BoothNames => change.n \in 0..10
                /\ dst \in BoothNames => change.n \in 1..5

\* The store holds a payout of more than a player may pay, on a payment; a
\* block has been stored by the call that stored its parent.
StoredAreWellFormedWitness ==
    LET self == bc["a1"]
    IN  /\ _hash_change(BlockB.change) \in DOMAIN self.blocks
        /\ self.pending = EmptyDict
        /\ \E h \in DOMAIN self.blocks :
               /\ self.blocks[h].change.src = "bob_b"
               /\ self.blocks[h].change.n = 6

\* C10: every stored block carries a signature that verifies against the
\* registered key of its src: src is registered with a key, and
\* signature ** 65537 % key is the hash of the block's change.
StoredAreSigned ==
    \A a \in Agents :
        \A h \in DOMAIN bc[a].blocks :
            LET block == bc[a].blocks[h]
                src == block.change.src
            IN  /\ src \in DOMAIN PubConfig
                /\ "key" \in DOMAIN PubConfig[src]
                /\ h = _hash_change(block.change)
                /\ pow(block.signature, PublicExponent, PubConfig[src].key) = h

\* The store holds blocks of both signers.
StoredAreSignedWitness ==
    LET self == bc["a1"]
    IN  /\ \E h \in DOMAIN self.blocks : self.blocks[h].change.src = "alice"
        /\ \E h \in DOMAIN self.blocks : self.blocks[h].change.src = "bob_b"
        /\ Cardinality(DOMAIN self.blocks) = MaxBlocks

-----------------------------------------------------------------------------
(* Properties of create_block. *)

\* The error strings whose condition holds when src asks for a transfer of n
\* to dst on the head and signs with privkey
ApplicableErrors(self, src, dst, n, privkey) ==
    {"Unknown user: " \o u : u \in {src, dst} \ DOMAIN self.users}
    \cup (IF \/ (src \in BoothNames) = (dst \in BoothNames)
             \/ src = dst \o "_b"
             \/ dst = src \o "_b"
          THEN {"Not authorized"} ELSE {})
    \cup (IF \/ src \notin BoothNames /\ dst \in BoothNames /\ n \notin 1..5
             \/ src \in BoothNames /\ dst \notin BoothNames /\ n \notin 0..10
          THEN {"Invalid amount"} ELSE {})
    \cup (IF /\ src \in BoothNames
             /\ dst \notin BoothNames
             /\ ~LastWasPayment(self, self.head, dst, src)
          THEN {"Not paid"} ELSE {})
    \cup (IF src \notin DOMAIN Secret \/ privkey # Secret[src]
          THEN {"Wrong key"} ELSE {})

-----------------------------------------------------------------------------
(* Scenario S2. *)

\* create_block and, when it returns a block, add_block of that block
\* [self |-> the object after the calls, value |-> what create_block returned]
Submit(self, src, dst, n, memo, privkey) ==
    LET r == create_block(self, src, dst, n, memo, privkey)
    IN  IF "block" \in DOMAIN r.value
        THEN [self |-> add_block(r.self, r.value.block).self, value |-> r.value]
        ELSE r

\* On an empty chain the player pays 2 to the booth and the booth pays 4 out
\* to the player, each by a block that create_block returns and add_block
\* admits; then the balances at the head are 22 and 18 and the head is the
\* second block.
ScenarioS2(self, player, booth) ==
    LET first == Submit(self, player, booth, 2, "m", Secret["alice"])
        second == Submit(first.self, booth, player, 4, "m", Secret["bob_b"])
        accounts == get_accounts(second.self).value
    IN  /\ "block" \in DOMAIN first.value
        /\ _hash_change(first.value.block.change) \in DOMAIN first.self.blocks
        /\ "block" \in DOMAIN second.value
        /\ _hash_change(second.value.block.change) \in DOMAIN second.self.blocks
        /\ accounts[player] = 22
        /\ accounts[booth] = 18
        /\ get_head_hash(second.self) = _hash_change(second.value.block.change)

\* C8 as stated: on an empty chain, scenario S2 with the player alice and the
\* booth alice_b ends with the balances 22 and 18 and the second block as head.
S2WithNamesake ==
    \A a \in Agents :
        DOMAIN bc[a].blocks = {} /\ bc[a].pending = EmptyDict
        => ScenarioS2(bc[a], "alice", "alice_b")

\* C8, amended: on an empty chain, scenario S2 with the player alice and a
\* booth that is not her namesake, bob_b, ends with the balances 22 and 18 and
\* the second block as head; and an agent whose store is the two blocks of
\* the scenario has the second as head and these balances.
S2WithOtherBooth ==
    \A a \in Agents :
        /\ DOMAIN bc[a].blocks = {} /\ bc[a].pending = EmptyDict
           => ScenarioS2(bc[a], "alice", "bob_b")
        /\ bc[a].blocks = [h \in {_hash_change(BlockA.change),
                                  _hash_change(BlockB.change)} |->
                              IF h = _hash_change(BlockA.change) THEN BlockA
                              ELSE BlockB]
           => /\ get_head_hash(bc[a]) = _hash_change(BlockB.change)
              /\ get_accounts(bc[a]).value = [alice |-> 22, bob_b |-> 18]

\* The second block of the scenario has just been admitted.
S2WithOtherBoothWitness ==
    /\ DOMAIN bc["a1"].blocks =
           {_hash_change(BlockA.change), _hash_change(BlockB.change)}
    /\ bc["a1"].pending = EmptyDict
    /\ ret = NoReturn
    /\ sent = <<>>
    /\ get_head_hash(bc["a1"]) = _hash_change(BlockB.change)

-----------------------------------------------------------------------------
(* Properties of the balances. *)

\* The sum of the values of a dict over a set of its keys
RECURSIVE SumOver(_, _)
SumOver(dict, keys) ==
    IF keys = {} THEN 0
    ELSE LET k == CHOOSE k \in keys : TRUE
         IN  dict[k] + SumOver(dict, keys \ {k})

\* C11: for ROOT and for every stored block h, the balances at h are given for
\* exactly the registered users and their sum is 20 times the number of
\* registered users.
BalancesConserved ==
    \A a \in Agents :
        \A h \in DOMAIN bc[a].blocks \cup {ROOT_HASH} :
            LET balances == _compute_balances(bc[a], h).value
            IN  /\ DOMAIN balances = DOMAIN bc[a].users
                /\ SumOver(balances, DOMAIN balances)
                       = StartBalance * Cardinality(DOMAIN bc[a].users)

\* The store holds a chain of three blocks at whose end alice's balance is
\* not the starting one.
BalancesConservedWitness ==
    \E h \in DOMAIN bc["a1"].blocks :
        /\ bc["a1"].chain_lengths[h] = 3
        /\ _compute_balances(bc["a1"], h).value["alice"] # StartBalance

-----------------------------------------------------------------------------
(* Properties of the block store. *)

\* C13: every stored block is stored under the hash of its change, its
\* change.old is ROOT or the hash of a stored block, chain_lengths is defined
\* on ROOT and the stored blocks, chain_lengths[ROOT] = 0 and
\* chain_lengths[h] = chain_lengths[h.old] + 1 for every stored block h.
StoreIsTree ==
    \A a \in Agents :
        LET self == bc[a]
        IN  /\ DOMAIN self.chain_lengths = DOMAIN self.blocks \cup {ROOT_HASH}
            /\ self.chain_lengths[ROOT_HASH] = 0
            /\ \A h \in DOMAIN self.blocks :
                   LET old == self.blocks[h].change.old
                   IN  /\ h = _hash_change(self.blocks[h].change)
                       /\ h # ROOT_HASH
                       /\ old = ROOT_HASH \/ old \in DOMAIN self.blocks
                       /\ self.chain_lengths[h] = self.chain_lengths[old] + 1

\* The store is a tree with a fork at ROOT and a branch of two blocks.
StoreIsTreeWitness ==
    LET self == bc["a1"]
    IN  /\ Cardinality({h \in DOMAIN self.blocks :
                            self.blocks[h].change.old = ROOT_HASH}) = 2
        /\ \E h \in DOMAIN self.blocks : self.chain_lengths[h] = 2

\* C14: a stored block stays in the store with the same content and the same
\* chain length in every step, also when the head moves to another branch.
StoredForever ==
    [][\A a \in Agents :
           \A h \in DOMAIN bc[a].blocks :
               /\ h \in DOMAIN bc'[a].blocks
               /\ bc'[a].blocks[h] = bc[a].blocks[h]
               /\ bc'[a].chain_lengths[h] = bc[a].chain_lengths[h]]_vars

\* The store holds a block on ROOT that is not live, with a smaller hash than
\* the live block on ROOT, and the head is a block of length 2: the head has
\* been on both branches or has passed the dead one by.
StoredForeverWitness ==
    LET self == bc["a1"]
    IN  \E g \in DOMAIN self.blocks :
            /\ ~is_live(self, g)
            /\ self.blocks[g].change.old = ROOT_HASH
            /\ g < self.blocks[self.head].change.old
            /\ self.chain_lengths[self.head] = 2

-----------------------------------------------------------------------------
(* Properties of add_block's refusals. *)

\* The blocks, chain lengths, children, head and pending buffer of an object
Ledger(self) ==
    <<self.blocks, self.chain_lengths, self.children, self.head, self.pending>>

\* C18: add_block of a block whose change hash is stored, with the stored
\* signature or another one, leaves the whole object as it is (the stored
\* block with it) and passes no message to its sender.
ReofferIsNoOp ==
    \A a \in Agents :
        \A blk \in Universe :
            _hash_change(blk.change) \in DOMAIN bc[a].blocks
            => add_block(bc[a], blk) = [self |-> bc[a], sent |-> <<>>]

\* a1 has been offered a with its two valid signatures and b with its valid
\* and its invalid one.
ReofferIsNoOpWitness ==
    /\ {BlockA, BlockAmal} \subseteq offered["a1"]
    /\ offered["a2"] = {}
    /\ _hash_change(BlockA.change) \in DOMAIN bc["a1"].blocks
    /\ sent = <<>>

\* A rule of the validator is violated by the change on its parent; written
\* from the rules, apart from _is_valid_change
RuleViolated(self, change) ==
    \/ change.src \notin DOMAIN self.users
    \/ change.dst \notin DOMAIN self.users
    \/ (change.src \in BoothNames) = (change.dst \in BoothNames)
    \/ change.src = change.dst \o "_b"
    \/ change.dst = change.src \o "_b"
    \/ change.dst \in BoothNames /\ change.n \notin 1..5
    \/ change.src \in BoothNames /\ change.n \notin 0..10
    \/ /\ change.src \in BoothNames
       /\ ~LastWasPayment(self, change.old, change.dst, change.src)

\* C19: add_block of a block whose signature does not verify, or of a
\* signature-valid block on ROOT or on a stored block whose change violates a
\* rule of the validator, leaves blocks, chain lengths, children, head and
\* pending buffer as they are and passes no message to its sender.
RejectionIsSilent ==
    \A a \in Agents :
        \A blk \in Universe :
            LET self == bc[a]
                old == blk.change.old
                r == add_block(self, blk)
            IN  \/ ~_verify_signature(self, blk)
                \/ /\ old = ROOT_HASH \/ old \in DOMAIN self.blocks
                   /\ RuleViolated(self, blk.change)
                => /\ Ledger(r.self) = Ledger(self)
                   /\ r.sent = <<>>

\* a1 has been offered a, b with a number that is not its signature and a
\* payout on ROOT: neither of the two is stored or waits.
RejectionIsSilentWitness ==
    /\ todo = {BlockA, BlockBbad, BlockX}
    /\ offered["a1"] = todo
    /\ DOMAIN bc["a1"].blocks = {_hash_change(BlockA.change)}
    /\ bc["a1"].pending = EmptyDict

-----------------------------------------------------------------------------
(* The pending buffer between the calls. *)

\* C20: every key of pending is neither ROOT nor the hash of a stored block,
\* and every block that waits under a key has that key as its change.old and
\* a signature that verifies; so a block whose parent has been admitted does
\* not wait any more, stored or not.
PendingIsOrphans ==
    \A a \in Agents :
        LET self == bc[a]
        IN  \A k \in DOMAIN self.pending :
                /\ k # ROOT_HASH
                /\ k \notin DOMAIN self.blocks
                /\ \A i \in DOMAIN self.pending[k] :
                       /\ self.pending[k][i].change.old = k
                       /\ _verify_signature(self, self.pending[k][i])

\* The payment of 6 on a waited for a and was dropped when a came; the block
\* on the refused payout still waits.
PendingIsOrphansWitness ==
    /\ todo = {BlockA, BlockI, BlockY}
    /\ offered["a1"] = todo
    /\ PendingBlocks(bc["a1"]) = {BlockY}
    /\ DOMAIN bc["a1"].blocks = {_hash_change(BlockA.change)}

-----------------------------------------------------------------------------
(* Properties of the caches. *)

\* The balances at ptr by the recurrence of the data model: 20 each at ROOT,
\* and at a block those at its parent with n moved from src to dst
RECURSIVE FreshBalances(_, _)
FreshBalances(self, ptr) ==
    IF ptr = ROOT_HASH THEN [u \in DOMAIN self.users |-> 20]
    ELSE LET change == self.blocks[ptr].change
             parent == FreshBalances(self, change.old)
         IN  [u \in DOMAIN parent |->
                 parent[u] - (IF u = change.src THEN change.n ELSE 0)
                           + (IF u = change.dst THEN change.n ELSE 0)]

\* The booths that player has paid at ptr by the recurrence of the data
\* model: none at ROOT; a payment of the player adds the booth, a payout of a
\* booth to the player removes it
RECURSIVE FreshPaid(_, _, _)
FreshPaid(self, ptr, player) ==
    IF ptr = ROOT_HASH THEN {}
    ELSE LET change == self.blocks[ptr].change
             parent == FreshPaid(self, change.old, player)
         IN  IF change.src = player /\ change.dst \in BoothNames
             THEN parent \cup {change.dst}
             ELSE IF change.dst = player /\ change.src \in BoothNames
             THEN parent \ {change.src}
             ELSE parent

\* C12: at ROOT and at every stored block, after whatever queries, admissions
\* and changes that callers made to the dicts they got, _compute_balances
\* returns the balances of the data model's recurrence and
\* _compute_paid_status a dict that gives every player the booths of the
\* recurrence (no booths to a player it has no key for); the dicts returned
\* are new objects, none that a cache holds.
CachesAreFresh ==
    \A a \in Agents :
        \A h \in DOMAIN bc[a].blocks \cup {ROOT_HASH} :
            LET balances == _compute_balances(bc[a], h)
                paid == _compute_paid_status(bc[a], h)
            IN  /\ balances.value = FreshBalances(bc[a], h)
                /\ balances.alias = {}
                /\ DOMAIN paid.value \subseteq Names \ BoothNames
                /\ \A player \in Names \ BoothNames :
                       Get(paid.value, player, {}) = FreshPaid(bc[a], h, player)
                /\ paid.alias = {}

\* Both caches hold an entry for the payout b on the payment a, and the
\* caller holds the balances it was returned for a block.
CachesAreFreshWitness ==
    /\ _hash_change(BlockB.change) \in DOMAIN bc["a1"].balances_cache
    /\ _hash_change(BlockB.change) \in DOMAIN bc["a1"].paid_cache
    /\ _hash_change(BlockA.change) \in DOMAIN bc["a1"].paid_cache
    /\ got # NoReturn
    /\ got.cache = "balances_cache"
    /\ got.value["alice"] = 18

-----------------------------------------------------------------------------
(* Properties of the /transfer handler. *)

\* C16 as stated: when a probe finds that the submitted block is not live any
\* more, the handler makes a new block for the transfer on the current head,
\* admits and broadcasts it and counts one more attempt; and a request whose
\* block was admitted ends with a success response.
ProbeResubmits ==
    [][/\ req.pc = "sleeping" /\ req' # req /\ ~is_live(bc[req.agent], req.h)
          => /\ req'.attempts = req.attempts + 1
             /\ req'.h # req.h
             /\ req'.h = bc'[req.agent].head
             /\ net' # net
             /\ req'.status \in {0, 200}
       /\ req.pc = "sleeping" /\ req'.pc = "done" => req'.status = 200]_vars

\* What the handler does: a probe that finds the submitted block not live
\* ends the request with a server error; no block is made, no attempt is
\* counted and nothing is broadcast.
ProbeRaises ==
    [][req.pc = "sleeping" /\ req' # req /\ ~is_live(bc[req.agent], req.h)
          => /\ req'.pc = "done"
             /\ req'.status = 500
             /\ req'.attempts = req.attempts
             /\ bc' = bc
             /\ net' = net]_vars

\* The request of alice at a1 has ended with a server error after its block
\* was passed by a longer chain that arrived from a peer.
ProbeRaisesWitness ==
    /\ req.pc = "done"
    /\ req.status = 500
    /\ req.agent = "a1"
    /\ req.attempts = 1
    /\ req.h \in DOMAIN bc["a1"].blocks
    /\ bc["a1"].chain_lengths[bc["a1"].head] > bc["a1"].chain_lengths[req.h]

-----------------------------------------------------------------------------
(* Properties of the bootstrap. *)

\* C17 as stated: when a2's first channel has opened and the pull of the
\* peer's chain is over, every block that was in the peer's store at the time
\* of the pull is in a2's store, and the channel is in use for gossip.
PullSyncs ==
    boot.joined =>
        /\ boot.pulled \subseteq DOMAIN bc["a2"].blocks
        /\ boot.channel = "open"

\* What the pull does: the numbers of a block, written as strings where they
\* are above the limit of GET /chain, make a block that add_block does not
\* admit; no block that is pulled is stored, and the channel is in use only
\* after the pull of an empty chain.
PullAdmitsNothing ==
    boot.joined =>
        /\ DOMAIN bc["a2"].blocks = {}
        /\ boot.channel = "open" <=> boot.pulled = {}

\* a2 has pulled the chain of a, b and c from a1: its store is empty and its
\* channel is not in use.
PullAdmitsNothingWitness ==
    /\ boot.joined
    /\ boot.channel = "failed"
    /\ boot.pulled = {_hash_change(BlockA.change), _hash_change(BlockB.change),
                      _hash_change(BlockC.change)}
    /\ DOMAIN bc["a2"].blocks = {}

-----------------------------------------------------------------------------
(* Properties of the network. *)

\* No message is in flight, no block waits for its parent, and the agents
\* hold the same blocks and the same head.
Converged ==
    /\ \A l \in Links : net[l] = <<>>
    /\ \A a \in Peers :
          /\ bc[a].pending = bc["a1"].pending
          /\ DOMAIN bc[a].pending = {}
          /\ DOMAIN bc[a].blocks = DOMAIN bc["a1"].blocks
          /\ bc[a].head = bc["a1"].head

\* C15: with every pair of agents on a channel that delivers every message,
\* and the transfers of the users at an end, there comes a time from which
\* on every message has been handled, no block waits for a parent, and all
\* agents hold the same head.
Convergence == <>[]Converged

\* a3 got a block of bob_b from a2 before its parent, a block of alice that
\* a1 created; the block waits, and a2 has answered a3's missing request:
\* the parent is on its way from a2, which never broadcast it.
ConvergenceWitness ==
    /\ Len(net[<<"a2", "a3">>]) = 1
    /\ DOMAIN Head(net[<<"a2", "a3">>]) # {"missing"}
    /\ Head(net[<<"a2", "a3">>]).change.src = "alice"
    /\ _hash_change(Head(net[<<"a2", "a3">>]).change) \in DOMAIN bc["a3"].pending
    /\ DOMAIN bc["a3"].blocks = {}
    /\ Cardinality(DOMAIN bc["a2"].blocks) = 2

-----------------------------------------------------------------------------
(* Properties of the live path. *)

\* h is met on the way from the head along old-links: there is a path of
\* stored blocks, each the parent of the one before, from the head to h
OnHeadPath(self, h) ==
    \E k \in 1..Cardinality(DOMAIN self.blocks) :
        \E p \in [1..k -> DOMAIN self.blocks] :
            /\ p[1] = self.head
            /\ p[k] = h
            /\ \A i \in 1..(k - 1) : p[i + 1] = self.blocks[p[i]].change.old

\* C25: is_live(h) is true exactly when h is a stored block that is the head
\* or an ancestor of the head along old-links: it is false for ROOT, for a
\* hash that is not stored and for a stored block of another branch; the walk
\* ends, since the path from the head comes to a block on ROOT within as many
\* steps as there are blocks; and /getlive answers 200 exactly for these.
LiveIsOnHeadPath ==
    /\ \A h \in BlockIds : is_live(bc["a1"], h) <=> OnHeadPath(bc["a1"], h)
    /\ ~is_live(bc["a1"], ROOT_HASH)
    /\ \A h \in BlockIds \ DOMAIN bc["a1"].blocks : ~is_live(bc["a1"], h)
    /\ \/ bc["a1"].head = ROOT_HASH
       \/ \E h \in DOMAIN bc["a1"].blocks :
             /\ OnHeadPath(bc["a1"], h)
             /\ bc["a1"].blocks[h].change.old = ROOT_HASH
    /\ \A h \in BlockIds :
          get_live(bc["a1"], h).status = 200 <=> OnHeadPath(bc["a1"], h)

\* a1 stores a, b and a4: /getlive has just answered 400 for a4, a stored block
\* of another branch, while a, an ancestor of the head b, is live.
LiveIsOnHeadPathWitness ==
    /\ DOMAIN bc["a1"].blocks = {_hash_change(BlockA.change),
                                 _hash_change(BlockB.change),
                                 _hash_change(BlockA4.change)}
    /\ bc["a1"].head = _hash_change(BlockB.change)
    /\ got = [blockid |-> _hash_change(BlockA4.change), status |-> 400,
              body |-> "dead branch"]
    /\ is_live(bc["a1"], _hash_change(BlockA.change))

-----------------------------------------------------------------------------
(* Properties of spending. *)

\* The balance of user at the block block_hash
BalanceAt(self, block_hash, user) ==
    _compute_balances(self, block_hash).value[user]

\* C26: a block of alice that pays bob_b 1 <= n <= 5 tickets, signed by her,
\* on ROOT or on a stored block, is admitted whatever her balance at the
\* parent is; and every stored payment left her with her balance at the
\* parent less n, below zero when she had less than n.
AdmittedWhateverBalance ==
    /\ \A old \in DOMAIN bc["a1"].blocks \cup {ROOT_HASH} :
          \A n \in {a \in Amounts : 1 <= a /\ a <= 5} :
              Unused(bc["a1"], Pay(old, n)) =>
                  _hash_change(Pay(old, n))
                      \in DOMAIN add_block(bc["a1"], Signed(Pay(old, n))).self.blocks
    /\ \A h \in DOMAIN bc["a1"].blocks :
          BalanceAt(bc["a1"], h, bc["a1"].blocks[h].change.src)
              = BalanceAt(bc["a1"], bc["a1"].blocks[h].change.old,
                          bc["a1"].blocks[h].change.src)
                - bc["a1"].blocks[h].change.n

\* alice has paid bob_b 4 tickets six times: the sixth block is stored and is
\* the head though she had no ticket left at its parent, and her balance at
\* the head is -4.
AdmittedWhateverBalanceWitness ==
    /\ bc["a1"].head # ROOT_HASH
    /\ bc["a1"].chain_lengths[bc["a1"].head] = 6
    /\ BalanceAt(bc["a1"], bc["a1"].blocks[bc["a1"].head].change.old, "alice") = 0
    /\ bc["a1"].blocks[bc["a1"].head].change.n = 4
    /\ get_accounts(bc["a1"]).value["alice"] = 0 - 4

-----------------------------------------------------------------------------
(* Properties of the admission of a created block. *)

-----------------------------------------------------------------------------
(* Properties of the missing-request service. *)

\* The channels after the agent at the end of l has read the request for h
\* from l and answered as the claim says
Served(self, l, h) ==
    [k \in Links |->
        IF k = l THEN Tail(net[l])
        ELSE IF k = <<l[2], l[1]>> /\ h \in DOMAIN self.blocks
        THEN Append(net[k], self.blocks[h])
        ELSE net[k]]

\* C24: a step in which an agent reads {missing: h} from a channel sends the
\* block h on that channel, and on no other, when the block is stored, live
\* or not; it sends nothing when the block is not stored; and it changes no
\* agent's store, head or pending buffer.
MissingIsServed ==
    [][\A l \in Links :
          /\ net[l] # <<>>
          /\ DOMAIN Head(net[l]) = {"missing"}
          /\ net'[l] = Tail(net[l])
          => /\ net' = Served(bc[l[2]], l, Head(net[l]).missing)
             /\ bc' = bc]_vars

\* a1 stores a, b and a4, with b the head; a2 asked for a4, which is not
\* live, and a1 has sent it on the channel to a2 and on no other.
MissingIsServedWitness ==
    /\ DOMAIN bc["a1"].blocks = {_hash_change(BlockA.change),
                                 _hash_change(BlockB.change),
                                 _hash_change(BlockA4.change)}
    /\ bc["a1"].head = _hash_change(BlockB.change)
    /\ ~is_live(bc["a1"], _hash_change(BlockA4.change))
    /\ net[<<"a1", "a2">>] = <<BlockA4>>
    /\ \A l \in Links \ {<<"a1", "a2">>} : net[l] = <<>>

-----------------------------------------------------------------------------
(* Properties of the election. *)

\* C23: however the tasks that contact the peers interleave, at most one of
\* them starts the pull of the chain, and only with the joined flag set; and
\* the flag, once set, stays set, also when the pull fails.
OnePull ==
    /\ [](/\ Cardinality({p \in DOMAIN task : task[p].pulls}) <= 1
          /\ (\E p \in DOMAIN task : task[p].pulls) => boot.joined)
    /\ [][boot.joined => boot'.joined]_vars

\* The task for a1 has pulled a1's chain of at least one block and has
\* failed; the flag is still set, and the task for a3, whose channel opened
\* afterwards, is in use_ws without a pull.
OnePullWitness ==
    /\ task["a1"] = [pc |-> "failed", pulls |-> TRUE]
    /\ boot.pulled # {}
    /\ boot.joined
    /\ task["a3"] = [pc |-> "open", pulls |-> FALSE]

-----------------------------------------------------------------------------
(* Properties of the suspension points of add_block. *)

\* C21: add_block awaits send_json, the one place where its task can be
\* suspended and another task can run, only to ask for a missing parent: a
\* call that stores a block, with the whole drain of the blocks that waited
\* for it, passes nothing to send_json and so runs in one piece; a call that
\* passes something passes one {missing: old}, after it has appended the
\* block to pending[old], and changes nothing else before it returns.
DrainIsOnePiece ==
    [][\A a \in Agents :
          /\ DOMAIN bc'[a].blocks # DOMAIN bc[a].blocks => sent' = <<>>
          /\ bc'[a] # bc[a] /\ sent' # <<>>
             => /\ Len(sent') = 1
                /\ DOMAIN sent'[1] = {"missing"}
                /\ sent'[1].missing \notin DOMAIN bc[a].blocks \cup {ROOT_HASH}
                /\ \E blk \in todo :
                      /\ blk.change.old = sent'[1].missing
                      /\ bc'[a] = [bc[a] EXCEPT !.pending =
                                      Put(@, blk.change.old,
                                          Append(Get(@, blk.change.old, <<>>),
                                                 blk))]]_vars

\* a1 has been handed a, b and c and holds the chain with nothing pending:
\* in whichever order they came, c before b before a among the orders, the
\* call that stored the last of them passed nothing to send_json.
DrainIsOnePieceWitness ==
    /\ todo = {BlockA, BlockB, BlockC}
    /\ offered["a1"] = todo
    /\ DOMAIN bc["a1"].blocks = {_hash_change(BlockA.change),
                                 _hash_change(BlockB.change),
                                 _hash_change(BlockC.change)}
    /\ bc["a1"].head = _hash_change(BlockC.change)
    /\ DOMAIN bc["a1"].pending = {}
    /\ sent = <<>>
    /\ offered["a2"] = {}

-----------------------------------------------------------------------------
(* Properties of the game sessions. *)

\* What /hit and /stand play with
Table(session) ==
    <<session.deck, session.player_hand, session.dealer_hand,
      session.game_over, session.result>>

\* The agent stores a block by which player paid n tickets to the booth
\* under the memo: what /getlive gave verify_payment
PaymentStored(self, memo, player, n) ==
    \E h \in DOMAIN self.blocks :
        self.blocks[h].change = [old |-> self.blocks[h].change.old,
                                 src |-> player, dst |-> USER, n |-> n,
                                 memo |-> memo]

\* C27: the hands, the deck, the result and game_over of a session change
\* only in a step from a state where the session is paid and not over, so
\* that a session that is over stays over and keeps them; /transfer is
\* posted at most once for a session, in such a step, and then the agent
\* stores a payment of the session's player, of its bet of at least one
\* ticket, to the booth under the session's memo.
SessionMachine ==
    [][\A memo \in DOMAIN game.sessions :
          /\ Table(game'.sessions[memo]) # Table(game.sessions[memo])
                => /\ game.sessions[memo].paid
                   /\ ~game.sessions[memo].game_over
          /\ game.sessions[memo].game_over
                => /\ game'.sessions[memo].game_over
                   /\ Table(game'.sessions[memo]) = Table(game.sessions[memo])
          /\ game'.paid_out[memo] <= 1
          /\ game'.paid_out[memo] # game.paid_out[memo]
                => /\ game.sessions[memo].paid
                   /\ ~game.sessions[memo].game_over
                   /\ game'.sessions[memo].game_over
                   /\ game.sessions[memo].bet_amount >= 1
                   /\ PaymentStored(bc["a2"], memo,
                                    game.sessions[memo].player,
                                    game.sessions[memo].bet_amount)]_vars

\* The session of memo "m" was paid with two tickets and stood to a push;
\* its payout of two tickets is the head of a2 and /transfer answered 200
SessionMachineWitness ==
    /\ "m" \in DOMAIN game.sessions
    /\ game.sessions["m"].paid
    /\ game.sessions["m"].game_over
    /\ game.sessions["m"].result = "push"
    /\ game.paid_out["m"] = 1
    /\ game.calls = <<>>
    /\ req.pc = "done"
    /\ req.status = 200
    /\ bc["a2"].head # ROOT_HASH
    /\ bc["a2"].blocks[bc["a2"].head].change.src = USER
    /\ bc["a2"].blocks[bc["a2"].head].change.n = 2

=============================================================================
